---- MODULE Spec2Model ----
(***************************************************************************)
(* Verification model of github.com/graxinc/cache.                         *)
(*                                                                         *)
(*   SpecNode  - one counting.Node shared by several goroutines that call  *)
(*               Node.Handle, handle.Release and Node.Release; every       *)
(*               atomic operation of the code is one step.                 *)
(*   SpecCache - one goroutine using a cache.Cache with the ARC policy;    *)
(*               every call is one step.                                   *)
(*   SpecCount - goroutines sharing a counting.Cache (default options) and *)
(*               calling Set, Peek, Get, All, Clear and handle.Release;    *)
(*               every atomic operation and every lock is one step.        *)
(*   SpecRace  - goroutines sharing a cache.Cache (default options) and    *)
(*               calling SetS, Get, Promote, All and Clear; every atomic   *)
(*               operation and every lock is one step.                     *)
(*   SpecARC   - one caller of a policy.ARC; every call is one step.       *)
(*   SpecExpire - one goroutine using a cache.Cache with an expiration as  *)
(*               the seconds pass.                                         *)
(*   SpecEvict - goroutines sharing a counting.Cache with the options      *)
(*               Evict and EvictSkip and calling Set, Clear,               *)
(*               handle.Release and the release functions the callback was *)
(*               handed.                                                   *)
(*   FairRace  - SpecRace with a capacity of one and entries of size one,  *)
(*               under a fair scheduler.                                   *)
(*   SpecMap   - goroutines sharing a maps.Map (Sync, Builtin or Bucketed) *)
(*               and calling Get, Add and Delete; every lock, read and     *)
(*               write is one step.                                        *)
(*   FairCount - goroutines calling Set, Peek, Get and handle.Release of a *)
(*               counting.Cache under a fair scheduler.                    *)
(***************************************************************************)
EXTENDS Integers, Sequences, FiniteSets, TLC

\* ----------------------------------------------------------------- bounds
NThreads == 3
MaxHandles == 2
NKeys == 3
NVals == 2
MaxSize == 2
MaxCap == 2
MaxLength == 2
NCountThreads == 2
NCountKeys == 2
MaxNodes == 2
MaxCountHandles == 3
MaxRaceLength == 3
MaxNow == 4
MaxExpiration == 5
MaxMapOps == 4
NBuckets == 2

\* ------------------------------------------------------ program constants
MaxInt32 == 2147483647
TestCapacity == 1
\* The capacity NewCache takes for a Capacity option that is not positive.
DefaultCapacity == 100
\* time.Second, in the unit the model counts durations in: half a second.
Second == 2

Threads == 1..NThreads
Keys == 1..NKeys
Vals == 1..NVals
CountThreads == 1..NCountThreads
CountKeys == 1..NCountKeys

\* ------------------------------------------------------------------ state
VARIABLES
    handles,      \* Node.handles (atomic.Int32), per node
    released,     \* Node.released (atomic.Int32: 0 open, 1 node, 2 value), per node
    releases,     \* number of times the wrapped value's Release ran, per node
    hNode,        \* handle -> the node it wraps (handle.n); Len = handles minted
    hRel,         \* handle -> handle.released (atomic.Bool)
    pc,           \* goroutine -> position in the code
    loc,          \* goroutine -> locals of the call in progress
    lastHandle,   \* the last Node.Handle call that returned among those made
                  \* after Node.Release: its result and whether every handle
                  \* had been released as well when it was called
    items,        \* Cache.items: key -> CacheValue [expire, size, v]
    policy,       \* Cache.policy, an ARC
    policyMu,     \* Cache.policyMu: 0 when free, else the goroutine holding it
    evictBool,    \* Cache.evictBool
    cap,          \* Cache.cap
    size,         \* Cache.size
    length,       \* Cache.length
    expiration,   \* Cache.expiration, in seconds; 0 is forever
    now,          \* seconds since Cache.expirationEpoch
    evict,        \* Cache.evict, the callback: "user" for the one of the
                  \* options of the Cache, "release" for the counting cache's
                  \* v.Release(), "custom" for its o.Evict(k, v.Value(),
                  \* v.Release)
    evictSkip,    \* the counting cache's option EvictSkip
    mapKind,      \* the implementation of maps.Map behind Cache.items:
                  \* "sync", "builtin" or "bucketed"
    mu,           \* Builtin.mu of each bucket of the map (a sync.RWMutex):
                  \* the goroutine holding it locked and those holding it
                  \* read-locked
    mapLog,       \* the Get, Add and Delete calls of the map in the order
                  \* they took effect, each with what it returned
    panicked,     \* the tag of the panic raised, "" when none
    evicted,      \* the calls of Cache.evict made by the last operation;
                  \* of a counting cache with a custom callback, all the
                  \* <<key, node>> it was called with
    lastOp        \* the last operation that returned; of a SetS its key, its
                  \* value and whether items.Add found a prior value

nodeVars == <<handles, released, releases, hNode, hRel>>
mapVars == <<mapKind, mu, mapLog>>
thrVars == <<pc, loc>>
histVars == <<lastHandle>>
cacheVars == <<items, policy, policyMu, evictBool, cap, size, length,
               expiration, now, evict, evictSkip, mapVars, panicked>>
obsVars == <<evicted, lastOp>>
vars == <<nodeVars, thrVars, histVars, cacheVars, obsVars>>

NoLoc == [n |-> 0, h |-> 0, old |-> 0, v |-> 0, ok |-> FALSE,
          ret |-> "idle", afterRel |-> FALSE, afterAll |-> FALSE,
          op |-> "", k |-> 0, sz |-> 0, ek |-> 0, es |-> 0, ks |-> <<>>,
          mine |-> 0]
NoHandle == [ok |-> "none", afterAll |-> FALSE]

\* The locals a call leaves behind: a goroutine back at "idle" keeps none.
Leave(l) == IF l.ret = "idle" THEN NoLoc ELSE l

\* Goroutine t is at position p of the code, and no panic ended the program.
At(t, p) == panicked = "" /\ pc[t] = p

\* The goroutines inside Node.dec on behalf of handle h (h = 0: of the node).
InDec(n, h) ==
    {t \in Threads : /\ pc[t] \in {"decAdd", "decCAS", "valRelease"}
                     /\ loc[t].n = n /\ loc[t].h = h}

\* Handle h has been released: the Release call that won the Swap of its flag
\* has decremented the node and returned.
HandleReleased(h) == hRel[h] /\ InDec(hNode[h], h) = {}

\* Node n has been released: the Node.Release call that won the CompareAndSwap
\* has decremented the node and returned.
NodeReleased(n) == released[n] >= 1 /\ InDec(n, 0) = {}

AllHandlesReleased(n) ==
    \A h \in 1..Len(hNode) : hNode[h] = n => HandleReleased(h)

\* Handles of node n that were minted and whose decrement has not run yet.
Outstanding(n) ==
    {h \in 1..Len(hNode) :
        /\ hNode[h] = n
        /\ ~hRel[h] \/ \E t \in Threads : pc[t] = "decAdd" /\ loc[t].h = h}

\* -------------------------------------------------------------- policy.ARC
\* A KeyList is the sequence of its keys, front first.  t1TargetFraction is
\* kept as an exact fraction <<numerator, denominator>> in lowest terms.
RECURSIVE Gcd(_, _)
Gcd(a, b) == IF b = 0 THEN a ELSE Gcd(b, a % b)

Frac(n, d) == LET g == Gcd(n, d) IN <<n \div g, d \div g>>

Has(list, key) == \E i \in 1..Len(list) : list[i] = key

Remove(list, key) == SelectSeq(list, LAMBDA x : x # key)

PushFront(list, key) == <<key>> \o list

RemoveTail(list) == SubSeq(list, 1, Len(list) - 1)

\* NewARC: four empty lists, t1TargetFraction = 0.
NewARC == [t1 |-> <<>>, t2 |-> <<>>, b1 |-> <<>>, b2 |-> <<>>, p |-> <<0, 1>>]

tLen(c) == Len(c.t1) + Len(c.t2)

\* math.RoundToEven of the fraction n/d, n >= 0.
RoundToEven(n, d) ==
    LET q == n \div d
        r == n % d
    IN  IF 2 * r < d THEN q
        ELSE IF 2 * r > d THEN q + 1
        ELSE IF q % 2 = 0 THEN q ELSE q + 1

t1TargetLen(c) == RoundToEven(c.p[1] * tLen(c), c.p[2])

\* setT1TargetFraction without the bounding to 0..1; <<1, 0>> stands for
\* +Inf and <<-1, 0>> for -Inf.
setT1TargetFractionNoBound(c, dn, dd) ==
    IF dn = 0 /\ (dd = 0 \/ tLen(c) = 0)
      THEN [c EXCEPT !.p = <<0, 0>>]
    ELSE IF tLen(c) = 0
      THEN [c EXCEPT !.p = IF dn > 0 THEN <<1, 0>> ELSE <<-1, 0>>]
      ELSE LET n == c.p[1] * dd * tLen(c) + dn * c.p[2]
               d == c.p[2] * dd * tLen(c)
           IN  [c EXCEPT !.p = IF n <= 0 THEN <<n, d>> ELSE Frac(n, d)]

\* v := t1TargetFraction + delta/tLen, bounded to 0..1; delta = dn/dd # 0.
\* With tLen = 0 the quotient is +Inf or -Inf, which the bounding turns
\* into 1 or 0.  A delta of 0/0, or of 0 with tLen = 0, would make v a NaN,
\* which min and max hand on: <<0, 0>> stands for it.
setT1TargetFraction(c, dn, dd) ==
    IF dn = 0 /\ (dd = 0 \/ tLen(c) = 0)
      THEN [c EXCEPT !.p = <<0, 0>>]
    ELSE IF tLen(c) = 0
      THEN [c EXCEPT !.p = IF dn > 0 THEN <<1, 1>> ELSE <<0, 1>>]
      ELSE LET n == c.p[1] * dd * tLen(c) + dn * c.p[2]
               d == c.p[2] * dd * tLen(c)
           IN  [c EXCEPT !.p = IF n <= 0 THEN <<0, 1>>
                               ELSE IF n >= d THEN <<1, 1>>
                               ELSE Frac(n, d)]

b1Hit(c) ==
    IF Len(c.b2) > Len(c.b1)
      THEN setT1TargetFraction(c, Len(c.b2), Len(c.b1))
      ELSE setT1TargetFraction(c, 1, 1)

b2Hit(c) ==
    IF Len(c.b1) > Len(c.b2)
      THEN setT1TargetFraction(c, -Len(c.b1), Len(c.b2))
      ELSE setT1TargetFraction(c, -1, 1)

\* for list.Len() > limit && list.Len() > 0 { list.RemoveTail() }
RECURSIVE TrimTail(_, _)
TrimTail(list, limit) ==
    IF Len(list) > limit /\ Len(list) > 0
      THEN TrimTail(RemoveTail(list), limit)
      ELSE list

\* ARC.Add that looks for the key in t2 only before it adds it.
ARCAddT2Only(c, key) ==
    IF Has(c.t2, key)
      THEN [ok |-> FALSE, c |-> c]
    ELSE IF Has(c.b2, key)
      THEN LET h == b2Hit(c)
           IN  [ok |-> TRUE,
                c |-> [h EXCEPT !.b2 = Remove(c.b2, key),
                                !.t2 = PushFront(c.t2, key)]]
    ELSE IF Has(c.b1, key)
      THEN LET h == b1Hit(c)
           IN  [ok |-> TRUE,
                c |-> [h EXCEPT !.b1 = Remove(c.b1, key),
                                !.t2 = PushFront(c.t2, key)]]
    ELSE LET t == t1TargetLen(c)
         IN  [ok |-> TRUE,
              c |-> [c EXCEPT !.b1 = TrimTail(c.b1, tLen(c) - t),
                              !.b2 = TrimTail(c.b2, t),
                              !.t1 = PushFront(c.t1, key)]]

\* ARC.Add that puts a key found in b1 at the front of t1.
ARCAddGhostT1(c, key) ==
    IF Has(c.t2, key) \/ Has(c.t1, key)
      THEN [ok |-> FALSE, c |-> c]
    ELSE IF Has(c.b2, key)
      THEN LET h == b2Hit(c)
           IN  [ok |-> TRUE,
                c |-> [h EXCEPT !.b2 = Remove(c.b2, key),
                                !.t2 = PushFront(c.t2, key)]]
    ELSE IF Has(c.b1, key)
      THEN LET h == b1Hit(c)
           IN  [ok |-> TRUE,
                c |-> [h EXCEPT !.b1 = Remove(c.b1, key),
                                !.t1 = PushFront(c.t1, key)]]
    ELSE LET t == t1TargetLen(c)
         IN  [ok |-> TRUE,
              c |-> [c EXCEPT !.b1 = TrimTail(c.b1, tLen(c) - t),
                              !.b2 = TrimTail(c.b2, t),
                              !.t1 = PushFront(c.t1, key)]]

\* ARC.Add: [ok, c], the result and the policy after the call.
ARCAdd(c, key) ==
    IF Has(c.t2, key) \/ Has(c.t1, key)
      THEN [ok |-> FALSE, c |-> c]
    ELSE IF Has(c.b2, key)
      THEN LET h == b2Hit(c)
           IN  [ok |-> TRUE,
                c |-> [h EXCEPT !.b2 = Remove(c.b2, key),
                                !.t2 = PushFront(c.t2, key)]]
    ELSE IF Has(c.b1, key)
      THEN LET h == b1Hit(c)
           IN  [ok |-> TRUE,
                c |-> [h EXCEPT !.b1 = Remove(c.b1, key),
                                !.t2 = PushFront(c.t2, key)]]
    ELSE LET t == t1TargetLen(c)
         IN  [ok |-> TRUE,
              c |-> [c EXCEPT !.b1 = TrimTail(c.b1, tLen(c) - t),
                              !.b2 = TrimTail(c.b2, t),
                              !.t1 = PushFront(c.t1, key)]]

\* ARC.Promote that leaves the key in t1 when it pushes it on t2.
ARCPromoteNoRemove(c, key) ==
    IF Has(c.t2, key)
      THEN [ok |-> TRUE, c |-> [c EXCEPT !.t2 = PushFront(Remove(c.t2, key), key)]]
    ELSE IF Has(c.t1, key)
      THEN [ok |-> TRUE, c |-> [c EXCEPT !.t2 = PushFront(c.t2, key)]]
    ELSE [ok |-> FALSE, c |-> c]

\* ARC.Promote: [ok, c].
ARCPromote(c, key) ==
    IF Has(c.t2, key)
      THEN [ok |-> TRUE, c |-> [c EXCEPT !.t2 = PushFront(Remove(c.t2, key), key)]]
    ELSE IF Has(c.t1, key)
      THEN [ok |-> TRUE, c |-> [c EXCEPT !.t1 = Remove(c.t1, key),
                                         !.t2 = PushFront(c.t2, key)]]
    ELSE [ok |-> FALSE, c |-> c]

\* tRemove of ARC.EvictSkip: the position, from the tail, of the first key of
\* tList that is not skipped; 0 when every key is skipped.
RECURSIVE tRemoveAt(_, _, _)
tRemoveAt(tList, skip, i) ==
    IF i = 0 THEN 0
    ELSE IF tList[i] \in skip THEN tRemoveAt(tList, skip, i - 1)
    ELSE i

\* ARC.EvictSkip that never asks the predicate.
ARCEvictSkipNoSkip(c, skip) ==
    LET i1 == tRemoveAt(c.t1, {}, Len(c.t1))
        i2 == tRemoveAt(c.t2, {}, Len(c.t2))
    IN  IF /\ Len(c.t1) > 0
           /\ (Len(c.t1) > t1TargetLen(c) \/ Len(c.t2) = 0)
           /\ i1 # 0
          THEN [ok |-> TRUE, key |-> c.t1[i1],
                c |-> [c EXCEPT !.t1 = Remove(c.t1, c.t1[i1]),
                                !.b1 = PushFront(c.b1, c.t1[i1])]]
        ELSE IF i2 # 0
          THEN [ok |-> TRUE, key |-> c.t2[i2],
                c |-> [c EXCEPT !.t2 = Remove(c.t2, c.t2[i2]),
                                !.b2 = PushFront(c.b2, c.t2[i2])]]
        ELSE [ok |-> FALSE, key |-> 0, c |-> c]

\* ARC.EvictSkip that takes from t1 whenever t1 holds a key.
ARCEvictSkipT1First(c, skip) ==
    LET i1 == tRemoveAt(c.t1, skip, Len(c.t1))
        i2 == tRemoveAt(c.t2, skip, Len(c.t2))
    IN  IF /\ Len(c.t1) > 0
           /\ i1 # 0
          THEN [ok |-> TRUE, key |-> c.t1[i1],
                c |-> [c EXCEPT !.t1 = Remove(c.t1, c.t1[i1]),
                                !.b1 = PushFront(c.b1, c.t1[i1])]]
        ELSE IF i2 # 0
          THEN [ok |-> TRUE, key |-> c.t2[i2],
                c |-> [c EXCEPT !.t2 = Remove(c.t2, c.t2[i2]),
                                !.b2 = PushFront(c.b2, c.t2[i2])]]
        ELSE [ok |-> FALSE, key |-> 0, c |-> c]

\* ARC.EvictSkip: [ok, key, c]; skip is the set of keys the predicate holds of.
ARCEvictSkip(c, skip) ==
    LET i1 == tRemoveAt(c.t1, skip, Len(c.t1))
        i2 == tRemoveAt(c.t2, skip, Len(c.t2))
    IN  IF /\ Len(c.t1) > 0
           /\ (Len(c.t1) > t1TargetLen(c) \/ Len(c.t2) = 0)
           /\ i1 # 0
          THEN [ok |-> TRUE, key |-> c.t1[i1],
                c |-> [c EXCEPT !.t1 = Remove(c.t1, c.t1[i1]),
                                !.b1 = PushFront(c.b1, c.t1[i1])]]
        ELSE IF i2 # 0
          THEN [ok |-> TRUE, key |-> c.t2[i2],
                c |-> [c EXCEPT !.t2 = Remove(c.t2, c.t2[i2]),
                                !.b2 = PushFront(c.b2, c.t2[i2])]]
        ELSE [ok |-> FALSE, key |-> 0, c |-> c]

\* ARC.Evict: EvictSkip with a predicate that skips nothing.
ARCEvict(c) == ARCEvictSkip(c, {})

\* ARC.Values: t1 and t2 from their fronts, taking turns.
RECURSIVE PingPong(_, _)
PingPong(a, b) ==
    IF a = <<>> /\ b = <<>> THEN <<>>
    ELSE (IF a # <<>> THEN <<Head(a)>> ELSE <<>>)
         \o (IF b # <<>> THEN <<Head(b)>> ELSE <<>>)
         \o PingPong(IF a # <<>> THEN Tail(a) ELSE a,
                     IF b # <<>> THEN Tail(b) ELSE b)

\* ARC.Values that yields all of t1 before t2.
ARCValuesConcat(c) ==
    c.t1 \o c.t2

\* ARC.Values: the lists recent (t1) and frequent (t2) taking turns.
ARCValues(c) ==
    PingPong(c.t1, c.t2)

\* ARC.Clear.
ARCClear(c) == NewARC

\* --------------------------------------------------------------- maps.Map
\* A sync.RWMutex nobody holds.
Unlocked == [w |-> 0, r |-> {}]

\* The zero maps.Sync, the default MapCreator of NewCache: no mutex is used.
NewSync ==
    /\ mapKind = "sync"
    /\ mu = <<Unlocked>>
    /\ mapLog = <<>>

\* maps.NewBuiltin: one map under one mutex.
NewBuiltin ==
    /\ mapKind = "builtin"
    /\ mu = <<Unlocked>>
    /\ mapLog = <<>>

\* maps.NewBucketed(n): n Builtin maps.
NewBucketed(n) ==
    /\ mapKind = "bucketed"
    /\ mu = [b \in 1..n |-> Unlocked]
    /\ mapLog = <<>>

\* ------------------------------------------------------------ cache.Cache
\* NewCache with the options Capacity c and Expiration e, e a duration: a
\* Capacity that is not positive becomes DefaultCapacity, and a positive
\* Expiration becomes its whole seconds, at least 1 (the durations of the
\* model stay far below the 2^32 seconds that mean forever).
NewCache(c, e) ==
    /\ items = <<>>
    /\ policy = NewARC
    /\ policyMu = 0
    /\ evictBool = FALSE
    /\ cap = (IF c <= 0 THEN DefaultCapacity ELSE c)
    /\ size = 0
    /\ length = 0
    /\ expiration = (IF e <= 0 THEN 0
                     ELSE IF e \div Second < 1 THEN 1 ELSE e \div Second)
    /\ now = 0
    /\ evict = "user"
    /\ evictSkip = FALSE
    /\ NewSync
    /\ panicked = ""
    /\ evicted = <<>>
    /\ lastOp = [op |-> "new", k |-> 0, v |-> 0, ok |-> FALSE]

\* counting.NewCache with the options Capacity c, Evict (oEvict tells
\* whether it is set) and EvictSkip.
CountingNewCache(c, oEvict, oEvictSkip) ==
    /\ items = <<>>
    /\ policy = NewARC
    /\ policyMu = 0
    /\ evictBool = FALSE
    /\ cap = (IF c <= 0 THEN DefaultCapacity ELSE c)
    /\ size = 0
    /\ length = 0
    /\ expiration = 0
    /\ now = 0
    /\ evict = (IF oEvict THEN "custom" ELSE "release")
    /\ evictSkip = oEvictSkip
    /\ NewSync
    /\ panicked = ""
    /\ evicted = <<>>
    /\ lastOp = [op |-> "new", k |-> 0, v |-> 0, ok |-> FALSE]

Max(a, b) == IF a >= b THEN a ELSE b

\* Cache.expire: the stamp of a value stored now (a uint32 sum; the seconds
\* of the model stay far below its wrap at 2^32).
Expire == IF expiration <= 0 THEN 0 ELSE now + expiration

\* Cache.expired that gives a value one more second.
ExpiredLate(expire) ==
    IF expire = 0 THEN FALSE ELSE now > expire

\* Cache.expired.
Expired(expire) ==
    IF expire = 0 THEN FALSE ELSE now >= expire

\* Map.Get, Map.Add, Map.Delete on a map held as a function.
MapHas(m, k) == k \in DOMAIN m

MapAdd(m, k, cv) == [x \in DOMAIN m \cup {k} |-> IF x = k THEN cv ELSE m[x]]

MapDelete(m, k) == [x \in DOMAIN m \ {k} |-> m[x]]

\* Cache.get: the value is there and has not expired.
CacheGetOk(k) == MapHas(items, k) /\ ~Expired(items[k].expire)

\* Cache.Peek: (v, ok), the zero value when !ok.
Peek(k) ==
    IF CacheGetOk(k) THEN [v |-> items[k].v, ok |-> TRUE]
    ELSE [v |-> 0, ok |-> FALSE]

\* The loop of Cache.evicts run by one goroutine on its own, on the record
\* st of items, policy, size, length, evicted and panicked.
RECURSIVE EvictLoop(_)
EvictLoop(st) ==
    IF st.size >= cap /\ st.panicked = ""
      THEN LET e == ARCEvict(st.policy)
           IN  IF ~e.ok THEN st
               ELSE IF ~MapHas(st.items, e.key)
                 THEN [st EXCEPT !.policy = e.c, !.panicked = "notInItems"]
               ELSE EvictLoop([st EXCEPT
                        !.policy = e.c,
                        !.items = MapDelete(st.items, e.key),
                        !.length = st.length - 1,
                        !.size = st.size - st.items[e.key].size,
                        !.evicted = Append(st.evicted,
                                           <<e.key, st.items[e.key].v>>)])
      ELSE st

\* Cache.evicts: nothing when another goroutine owns evictBool.
Evicts(st) == IF evictBool THEN st ELSE EvictLoop(st)

CacheState ==
    [items |-> items, policy |-> policy, size |-> size, length |-> length,
     evicted |-> <<>>, panicked |-> panicked]

SetState(st) ==
    /\ items' = st.items
    /\ policy' = st.policy
    /\ size' = st.size
    /\ length' = st.length
    /\ evicted' = st.evicted
    /\ panicked' = st.panicked

\* Cache.SetS with the policy add moved before the eviction pass.
SetSAddFirst(k, v, sz) ==
    LET s1 == Max(1, sz)
        av == [expire |-> Expire, size |-> s1, v |-> v]
    IN  /\ panicked = ""
        /\ MapHas(items, k) \/ length < MaxLength
        /\ IF MapHas(items, k)
             THEN SetState([CacheState EXCEPT
                      !.items = MapAdd(items, k, av),
                      !.size = size + s1 - items[k].size,
                      !.evicted = <<<<k, items[k].v>>>>])
             ELSE LET add == ARCAdd(policy, k)
                      st == Evicts([CacheState EXCEPT
                                !.items = MapAdd(items, k, av),
                                !.length = length + 1,
                                !.size = size + s1,
                                !.policy = add.c])
                  IN  SetState([st EXCEPT
                          !.panicked = IF st.panicked = "" /\ ~add.ok
                                         THEN "alreadyInPolicy" ELSE @])
        /\ lastOp' = [op |-> "set", k |-> k, v |-> v, ok |-> MapHas(items, k)]
        /\ UNCHANGED <<policyMu, evictBool, cap, expiration, now, evict, evictSkip, mapVars>>
        /\ UNCHANGED <<nodeVars, thrVars, histVars>>

\* Cache.SetS with the replaced size not taken off Cache.size.
SetSNoSub(k, v, sz) ==
    LET s1 == Max(1, sz)
        av == [expire |-> Expire, size |-> s1, v |-> v]
    IN  /\ panicked = ""
        /\ MapHas(items, k) \/ length < MaxLength
        /\ IF MapHas(items, k)
             THEN SetState([CacheState EXCEPT
                      !.items = MapAdd(items, k, av),
                      !.size = size + s1,
                      !.evicted = <<<<k, items[k].v>>>>])
             ELSE LET st == Evicts([CacheState EXCEPT
                                !.items = MapAdd(items, k, av)])
                      add == ARCAdd(st.policy, k)
                  IN  SetState([st EXCEPT
                          !.length = st.length + 1,
                          !.size = st.size + s1,
                          !.policy = add.c,
                          !.panicked = IF st.panicked = "" /\ ~add.ok
                                         THEN "alreadyInPolicy" ELSE @])
        /\ lastOp' = [op |-> "set", k |-> k, v |-> v, ok |-> MapHas(items, k)]
        /\ UNCHANGED <<policyMu, evictBool, cap, expiration, now, evict, evictSkip, mapVars>>
        /\ UNCHANGED <<nodeVars, thrVars, histVars>>

\* Cache.SetS without the eviction pass.
SetSNoEvicts(k, v, sz) ==
    LET s1 == Max(1, sz)
        av == [expire |-> Expire, size |-> s1, v |-> v]
    IN  /\ panicked = ""
        /\ MapHas(items, k) \/ length < MaxLength
        /\ IF MapHas(items, k)
             THEN SetState([CacheState EXCEPT
                      !.items = MapAdd(items, k, av),
                      !.size = size + s1 - items[k].size,
                      !.evicted = <<<<k, items[k].v>>>>])
             ELSE LET st == [CacheState EXCEPT !.items = MapAdd(items, k, av)]
                      add == ARCAdd(st.policy, k)
                  IN  SetState([st EXCEPT
                          !.length = st.length + 1,
                          !.size = st.size + s1,
                          !.policy = add.c,
                          !.panicked = IF st.panicked = "" /\ ~add.ok
                                         THEN "alreadyInPolicy" ELSE @])
        /\ lastOp' = [op |-> "set", k |-> k, v |-> v, ok |-> MapHas(items, k)]
        /\ UNCHANGED <<policyMu, evictBool, cap, expiration, now, evict, evictSkip, mapVars>>
        /\ UNCHANGED <<nodeVars, thrVars, histVars>>

\* Cache.SetS(k, v, size), run by one goroutine on its own; lastOp.ok tells
\* whether items.Add found a prior value.
SetS(k, v, sz) ==
    LET s1 == Max(1, sz)
        av == [expire |-> Expire, size |-> s1, v |-> v]
    IN  /\ panicked = ""
        /\ MapHas(items, k) \/ length < MaxLength
        /\ IF MapHas(items, k)
             THEN SetState([CacheState EXCEPT
                      !.items = MapAdd(items, k, av),
                      !.size = size + s1 - items[k].size,
                      !.evicted = <<<<k, items[k].v>>>>])
             ELSE LET st == Evicts([CacheState EXCEPT
                                !.items = MapAdd(items, k, av)])
                      add == ARCAdd(st.policy, k)
                  IN  SetState([st EXCEPT
                          !.length = st.length + 1,
                          !.size = st.size + s1,
                          !.policy = add.c,
                          !.panicked = IF st.panicked = "" /\ ~add.ok
                                         THEN "alreadyInPolicy" ELSE @])
        /\ lastOp' = [op |-> "set", k |-> k, v |-> v, ok |-> MapHas(items, k)]
        /\ UNCHANGED <<policyMu, evictBool, cap, expiration, now, evict, evictSkip, mapVars>>
        /\ UNCHANGED <<nodeVars, thrVars, histVars>>

\* Cache.Peek(k) that promotes as Get does.
DoPeekPromotes(k) ==
    /\ panicked = ""
    /\ policy' = IF CacheGetOk(k) THEN ARCPromote(policy, k).c ELSE policy
    /\ lastOp' = [op |-> "peek", k |-> k, v |-> Peek(k).v, ok |-> Peek(k).ok]
    /\ evicted' = <<>>
    /\ UNCHANGED <<items, policyMu, evictBool, cap, size, length, expiration,
                   now, evict, evictSkip, mapVars, panicked>>
    /\ UNCHANGED <<nodeVars, thrVars, histVars>>

\* Cache.Peek(k).
DoPeek(k) ==
    /\ panicked = ""
    /\ lastOp' = [op |-> "peek", k |-> k, v |-> Peek(k).v, ok |-> Peek(k).ok]
    /\ evicted' = <<>>
    /\ UNCHANGED <<cacheVars, nodeVars, thrVars, histVars>>

\* Cache.Promote(k): policy.Promote(k) when TryLock gets the policy lock.
PromoteState(k) ==
    IF policyMu = 0 THEN ARCPromote(policy, k).c ELSE policy

\* Cache.Promote(k), run by one goroutine on its own.
Promote(k) ==
    /\ panicked = ""
    /\ policy' = PromoteState(k)
    /\ lastOp' = [op |-> "promote", k |-> k, v |-> 0, ok |-> FALSE]
    /\ evicted' = <<>>
    /\ UNCHANGED <<items, policyMu, evictBool, cap, size, length, expiration,
                   now, evict, evictSkip, mapVars, panicked>>
    /\ UNCHANGED <<nodeVars, thrVars, histVars>>

\* Cache.Get(k), run by one goroutine on its own.
Get(k) ==
    /\ panicked = ""
    /\ policy' = IF CacheGetOk(k) THEN PromoteState(k) ELSE policy
    /\ lastOp' = [op |-> "get", k |-> k, v |-> Peek(k).v, ok |-> Peek(k).ok]
    /\ evicted' = <<>>
    /\ UNCHANGED <<items, policyMu, evictBool, cap, size, length, expiration,
                   now, evict, evictSkip, mapVars, panicked>>
    /\ UNCHANGED <<nodeVars, thrVars, histVars>>

\* The loop of Cache.Clear over the keys ks of policy.Values().
RECURSIVE ClearLoop(_, _)
ClearLoop(st, ks) ==
    IF ks = <<>> \/ st.panicked # "" THEN st
    ELSE IF ~MapHas(st.items, Head(ks))
      THEN [st EXCEPT !.panicked = "notInItems"]
    ELSE ClearLoop([st EXCEPT
             !.items = MapDelete(st.items, Head(ks)),
             !.size = st.size - st.items[Head(ks)].size,
             !.evicted = Append(st.evicted,
                                <<Head(ks), st.items[Head(ks)].v>>)],
           Tail(ks))

\* Cache.Clear without its calls of the eviction callback.
ClearNoCallback ==
    /\ panicked = ""
    /\ policyMu = 0
    /\ LET st == ClearLoop(CacheState, ARCValues(policy))
       IN  SetState([st EXCEPT
               !.evicted = <<>>,
               !.policy = IF st.panicked = "" THEN ARCClear(st.policy) ELSE @])
    /\ lastOp' = [op |-> "clear", k |-> 0, v |-> 0, ok |-> FALSE]
    /\ UNCHANGED <<policyMu, evictBool, cap, expiration, now, evict, evictSkip, mapVars>>
    /\ UNCHANGED <<nodeVars, thrVars, histVars>>

\* Cache.Clear(), run by one goroutine on its own.
Clear ==
    /\ panicked = ""
    /\ policyMu = 0
    /\ LET st == ClearLoop(CacheState, ARCValues(policy))
       IN  SetState([st EXCEPT
               !.policy = IF st.panicked = "" THEN ARCClear(st.policy) ELSE @])
    /\ lastOp' = [op |-> "clear", k |-> 0, v |-> 0, ok |-> FALSE]
    /\ UNCHANGED <<policyMu, evictBool, cap, expiration, now, evict, evictSkip, mapVars>>
    /\ UNCHANGED <<nodeVars, thrVars, histVars>>

\* Cache.SetCapacity(c).
SetCapacity(c) ==
    /\ panicked = ""
    /\ cap' = c
    /\ lastOp' = [op |-> "setCapacity", k |-> 0, v |-> 0, ok |-> FALSE]
    /\ evicted' = <<>>
    /\ UNCHANGED <<items, policy, policyMu, evictBool, size, length,
                   expiration, now, evict, evictSkip, mapVars, panicked>>
    /\ UNCHANGED <<nodeVars, thrVars, histVars>>

Min(a, b) == IF a <= b THEN a ELSE b

\* Cache.SetLargerCapacity that adds available to the size, whatever the
\* capacity.
SetLargerCapacityNoMin(available, max) ==
    LET new == Min(max, size + available) IN
    /\ panicked = ""
    /\ cap' = (IF new <= cap THEN cap ELSE new)
    /\ lastOp' = [op |-> "setLargerCapacity", k |-> available, v |-> max,
                  ok |-> new > cap]
    /\ evicted' = <<>>
    /\ UNCHANGED <<items, policy, policyMu, evictBool, size, length,
                   expiration, now, evict, evictSkip, mapVars, panicked>>
    /\ UNCHANGED <<nodeVars, thrVars, histVars>>

\* Cache.SetLargerCapacity(available, max) with no other goroutine between
\* its loads and its CompareAndSwap; lastOp.ok tells whether it stored.
SetLargerCapacity(available, max) ==
    LET base == Min(size, cap)
        new == Min(max, base + available)
    IN
    /\ panicked = ""
    /\ cap' = (IF new <= cap THEN cap ELSE new)
    /\ lastOp' = [op |-> "setLargerCapacity", k |-> available, v |-> max,
                  ok |-> new > cap]
    /\ evicted' = <<>>
    /\ UNCHANGED <<items, policy, policyMu, evictBool, size, length,
                   expiration, now, evict, evictSkip, mapVars, panicked>>
    /\ UNCHANGED <<nodeVars, thrVars, histVars>>

\* The keys Cache.All() yields when its consumer takes them all, with no
\* other goroutine at work: policy.Values() without the expired ones.
All ==
    SelectSeq(ARCValues(policy),
              LAMBDA k : MapHas(items, k) /\ ~Expired(items[k].expire))

\* Cache.Capacity(), Cache.Len() and Cache.Size().
Capacity == cap

CacheLen == length

CacheSize == size

\* -------------------------------- SpecCache: one goroutine using a Cache
InitCache ==
    /\ \E c \in 0..MaxCap : NewCache(c, 0)
    /\ handles = <<>>
    /\ released = <<>>
    /\ releases = <<>>
    /\ hNode = <<>>
    /\ hRel = <<>>
    /\ pc = [t \in Threads |-> "idle"]
    /\ loc = [t \in Threads |-> NoLoc]
    /\ lastHandle = NoHandle

NextCache ==
    \/ \E k \in Keys, v \in Vals, sz \in {0, MaxSize} : SetS(k, v, sz)
    \/ \E k \in Keys : DoPeek(k)
    \/ \E k \in Keys : Get(k)
    \/ \E k \in Keys : Promote(k)
    \/ Clear
    \/ \E c \in 0..MaxCap : SetCapacity(c)
    \/ \E available \in -1..1, max \in 1..MaxCap :
          SetLargerCapacity(available, max)

SpecCache == InitCache /\ [][NextCache]_vars

\* ------------------- SpecExpire: one goroutine using a Cache as time passes
\* One more whole second has passed since expirationEpoch.
Tick ==
    /\ panicked = ""
    /\ now < MaxNow
    /\ now' = now + 1
    /\ UNCHANGED <<items, policy, policyMu, evictBool, cap, size, length,
                   expiration, evict, evictSkip, mapVars, panicked, obsVars>>
    /\ UNCHANGED <<nodeVars, thrVars, histVars>>

\* Set(k, v) with the second of the call as the value.
SetNow(k) == SetS(k, now, 1)

InitExpire ==
    /\ \E e \in 0..MaxExpiration : NewCache(MaxCap, e)
    /\ handles = <<>>
    /\ released = <<>>
    /\ releases = <<>>
    /\ hNode = <<>>
    /\ hRel = <<>>
    /\ pc = [t \in Threads |-> "idle"]
    /\ loc = [t \in Threads |-> NoLoc]
    /\ lastHandle = NoHandle

NextExpire ==
    \/ Tick
    \/ \E k \in Keys : SetNow(k)
    \/ \E k \in Keys : DoPeek(k)
    \/ \E k \in Keys : Get(k)

SpecExpire == InitExpire /\ [][NextExpire]_vars

\* ----------------------------------------------------------- counting.Node
\* NewNode: handles = 0, released = 0.
NewNode == [handles |-> 0, released |-> 0]

\* The locals of a Node.Handle call on node n that continues at ret.
HandleCall(l, n, ret) ==
    [l EXCEPT !.n = n, !.h = 0, !.ret = ret,
              !.afterRel = NodeReleased(n),
              !.afterAll = NodeReleased(n) /\ AllHandlesReleased(n)]

\* Node.Handle returns ok to its caller.
HandleReturn(t, ok, h) ==
    /\ pc' = [pc EXCEPT ![t] = loc[t].ret]
    /\ loc' = [loc EXCEPT ![t] = Leave([loc[t] EXCEPT !.ok = ok, !.h = h, !.old = 0,
                                    !.afterRel = FALSE, !.afterAll = FALSE])]
    /\ lastHandle' = IF loc[t].afterRel
                       THEN [ok |-> IF ok THEN "true" ELSE "false",
                             afterAll |-> loc[t].afterAll]
                       ELSE lastHandle

\* Node.inc with the released test off by one (old < -1).
IncLoadOffByOne(t) ==
    LET old == handles[loc[t].n] IN
    /\ At(t, "incLoad")
    /\ IF old < -1
         THEN HandleReturn(t, FALSE, 0)
         ELSE IF old >= MaxInt32 - 2
           THEN UNCHANGED <<thrVars, lastHandle>>
           ELSE /\ pc' = [pc EXCEPT ![t] = "incCAS"]
                /\ loc' = [loc EXCEPT ![t].old = old]
                /\ UNCHANGED lastHandle
    /\ UNCHANGED <<nodeVars, cacheVars, obsVars>>

\* Node.inc: old := n.handles.Load() and the two tests that follow it.
IncLoad(t) ==
    LET old == handles[loc[t].n] IN
    /\ At(t, "incLoad")
    /\ IF old < 0
         THEN HandleReturn(t, FALSE, 0)
         ELSE IF old >= MaxInt32 - 2
           THEN UNCHANGED <<thrVars, lastHandle>>
           ELSE /\ pc' = [pc EXCEPT ![t] = "incCAS"]
                /\ loc' = [loc EXCEPT ![t].old = old]
                /\ UNCHANGED lastHandle
    /\ UNCHANGED <<nodeVars, cacheVars, obsVars>>

\* Node.inc: n.handles.CompareAndSwap(old, old+1); on success Node.Handle
\* wraps the node in a fresh handle.
IncCAS(t) ==
    LET n == loc[t].n IN
    /\ At(t, "incCAS")
    /\ IF handles[n] = loc[t].old
         THEN /\ handles' = [handles EXCEPT ![n] = loc[t].old + 1]
              /\ hNode' = Append(hNode, n)
              /\ hRel' = Append(hRel, FALSE)
              /\ HandleReturn(t, TRUE, Len(hNode) + 1)
              /\ UNCHANGED <<released, releases, cacheVars, obsVars>>
         ELSE /\ pc' = [pc EXCEPT ![t] = "incLoad"]
              /\ loc' = [loc EXCEPT ![t].old = 0]
              /\ UNCHANGED <<nodeVars, histVars, cacheVars, obsVars>>

\* Node.dec: v := n.handles.Add(-1).
DecAdd(t) ==
    LET n == loc[t].n IN
    /\ At(t, "decAdd")
    /\ handles' = [handles EXCEPT ![n] = handles[n] - 1]
    /\ loc' = [loc EXCEPT ![t].v = handles[n] - 1]
    /\ pc' = [pc EXCEPT ![t] = "decCAS"]
    /\ UNCHANGED <<released, releases, hNode, hRel, histVars, cacheVars, obsVars>>

\* handle.Release (h # 0) or Node.Release (h = 0) returns to its caller.
Return(t) ==
    /\ pc' = [pc EXCEPT ![t] = loc[t].ret]
    /\ loc' = [loc EXCEPT ![t] = Leave([loc[t] EXCEPT !.v = 0, !.h = 0])]
    /\ UNCHANGED lastHandle

\* Node.dec with || in place of &&.
DecCASOr(t) ==
    LET n == loc[t].n IN
    /\ At(t, "decCAS")
    /\ IF loc[t].v < 0 \/ released[n] = 1
         THEN /\ released' = [released EXCEPT ![n] = IF loc[t].v < 0 THEN @ ELSE 2]
              /\ pc' = [pc EXCEPT ![t] = "valRelease"]
              /\ UNCHANGED <<loc, histVars>>
         ELSE /\ Return(t)
              /\ UNCHANGED released
    /\ UNCHANGED <<handles, releases, hNode, hRel, cacheVars, obsVars>>

\* Node.dec with the final test off by one (v < -1).
DecCASOffByOne(t) ==
    LET n == loc[t].n IN
    /\ At(t, "decCAS")
    /\ IF loc[t].v < -1 /\ released[n] = 1
         THEN /\ released' = [released EXCEPT ![n] = 2]
              /\ pc' = [pc EXCEPT ![t] = "valRelease"]
              /\ UNCHANGED <<loc, histVars>>
         ELSE /\ Return(t)
              /\ UNCHANGED released
    /\ UNCHANGED <<handles, releases, hNode, hRel, cacheVars, obsVars>>

\* Node.dec: v < 0 && n.released.CompareAndSwap(1, 2).
DecCAS(t) ==
    LET n == loc[t].n IN
    /\ At(t, "decCAS")
    /\ IF loc[t].v < 0 /\ released[n] = 1
         THEN /\ released' = [released EXCEPT ![n] = 2]
              /\ pc' = [pc EXCEPT ![t] = "valRelease"]
              /\ UNCHANGED <<loc, histVars>>
         ELSE /\ Return(t)
              /\ UNCHANGED released
    /\ UNCHANGED <<handles, releases, hNode, hRel, cacheVars, obsVars>>

\* Node.dec: n.value.Release().
ValRelease(t) ==
    /\ At(t, "valRelease")
    /\ releases' = [releases EXCEPT ![loc[t].n] = @ + 1]
    /\ Return(t)
    /\ UNCHANGED <<handles, released, hNode, hRel, cacheVars, obsVars>>

\* handle.Release without the test of the flag: every call decrements.
HSwapAlways(t) ==
    LET h == loc[t].h IN
    /\ At(t, "hSwap")
    /\ hRel' = [hRel EXCEPT ![h] = TRUE]
    /\ pc' = [pc EXCEPT ![t] = "decAdd"]
    /\ UNCHANGED <<loc, histVars>>
    /\ UNCHANGED <<handles, released, releases, hNode, cacheVars, obsVars>>

\* handle.Release: !h.released.Swap(true).
HSwap(t) ==
    LET h == loc[t].h IN
    /\ At(t, "hSwap")
    /\ hRel' = [hRel EXCEPT ![h] = TRUE]
    /\ IF ~hRel[h]
         THEN /\ pc' = [pc EXCEPT ![t] = "decAdd"]
              /\ UNCHANGED <<loc, histVars>>
         ELSE Return(t)
    /\ UNCHANGED <<handles, released, releases, hNode, cacheVars, obsVars>>

\* Node.Release without the test of the CompareAndSwap: every call decrements.
NRelCASAlways(t) ==
    LET n == loc[t].n IN
    /\ At(t, "nRelCAS")
    /\ released' = [released EXCEPT ![n] = IF @ = 0 THEN 1 ELSE @]
    /\ pc' = [pc EXCEPT ![t] = "decAdd"]
    /\ UNCHANGED <<loc, histVars>>
    /\ UNCHANGED <<handles, releases, hNode, hRel, cacheVars, obsVars>>

\* Node.Release: n.released.CompareAndSwap(0, 1).
NRelCAS(t) ==
    LET n == loc[t].n IN
    /\ At(t, "nRelCAS")
    /\ IF released[n] = 0
         THEN /\ released' = [released EXCEPT ![n] = 1]
              /\ pc' = [pc EXCEPT ![t] = "decAdd"]
              /\ UNCHANGED <<loc, histVars>>
         ELSE /\ Return(t)
              /\ UNCHANGED released
    /\ UNCHANGED <<handles, releases, hNode, hRel, cacheVars, obsVars>>

\* --------------------------------------------- SpecNode: callers of a Node
\* Node.Handle calls that have not returned yet.
InHandle == {t \in Threads : pc[t] \in {"incLoad", "incCAS"}}

\* A goroutine calls Node.Handle on the node.
CallHandle(t) ==
    /\ At(t, "idle")
    /\ Len(hNode) + Cardinality(InHandle) < MaxHandles \/ handles[1] < 0
    /\ pc' = [pc EXCEPT ![t] = "incLoad"]
    /\ loc' = [loc EXCEPT ![t] = HandleCall(NoLoc, 1, "idle")]
    /\ UNCHANGED <<nodeVars, histVars, cacheVars, obsVars>>

\* A goroutine calls Release on a handle minted earlier, for the first time
\* or again.
CallHandleRelease(t) ==
    /\ At(t, "idle")
    /\ \E h \in 1..Len(hNode) :
         loc' = [loc EXCEPT ![t] = [NoLoc EXCEPT !.n = hNode[h], !.h = h]]
    /\ pc' = [pc EXCEPT ![t] = "hSwap"]
    /\ UNCHANGED <<nodeVars, histVars, cacheVars, obsVars>>

\* A goroutine calls Node.Release, for the first time or again.
CallNodeRelease(t) ==
    /\ At(t, "idle")
    /\ loc' = [loc EXCEPT ![t] = [NoLoc EXCEPT !.n = 1]]
    /\ pc' = [pc EXCEPT ![t] = "nRelCAS"]
    /\ UNCHANGED <<nodeVars, histVars, cacheVars, obsVars>>

InitNode ==
    /\ NewCache(1, 0)
    /\ handles = <<NewNode.handles>>
    /\ released = <<NewNode.released>>
    /\ releases = <<0>>
    /\ hNode = <<>>
    /\ hRel = <<>>
    /\ pc = [t \in Threads |-> "idle"]
    /\ loc = [t \in Threads |-> NoLoc]
    /\ lastHandle = NoHandle

NextNode ==
    \E t \in Threads :
        \/ CallHandle(t)
        \/ CallHandleRelease(t)
        \/ CallNodeRelease(t)
        \/ IncLoad(t)
        \/ IncCAS(t)
        \/ HSwap(t)
        \/ NRelCAS(t)
        \/ DecAdd(t)
        \/ DecCAS(t)
        \/ ValRelease(t)

SpecNode == InitNode /\ [][NextNode]_vars

AllIdle == \A t \in Threads : pc[t] = "idle"

Nodes == DOMAIN handles

\* ---------------------------------------------------------- counting.Cache
\* One step of a goroutine inside a counting.Cache call: to position p with
\* locals l.
Goto(t, p, l) ==
    /\ pc' = [pc EXCEPT ![t] = p]
    /\ loc' = [loc EXCEPT ![t] = l]

\* A goroutine returns from its call to the caller.
Done(t) == Goto(t, "idle", NoLoc)

\* a.evict(k, v) that is v.Release() whatever the options.
EvictCallRelease(t, k, l, ret) ==
    /\ Goto(t, "nRelCAS", [l EXCEPT !.ret = ret])
    /\ UNCHANGED evicted

\* a.evict(k, v) from position l of goroutine t, which goes on at ret.  The
\* callback of a counting.Cache is v.Release() on the node v (n # 0), or
\* o.Evict(k, v.Value(), v.Release), which keeps v.Release to call it when
\* it likes: evicted holds <<k, v, whether v.Release was called>>.  The
\* callback of a cache.Cache of plain values is left out here.
EvictCall(t, k, l, ret) ==
    IF l.n = 0 \/ evict = "user"
      THEN /\ Goto(t, ret, [l EXCEPT !.ret = ret])
           /\ UNCHANGED evicted
    ELSE IF evict = "custom"
      THEN /\ Goto(t, ret, [l EXCEPT !.ret = ret])
           /\ evicted' = Append(evicted, <<k, l.n, FALSE>>)
    ELSE /\ Goto(t, "nRelCAS", [l EXCEPT !.ret = ret])
         /\ UNCHANGED evicted

\* The calls in progress that can still mint a handle.
MayMint ==
    {t \in CountThreads : /\ loc[t].op \in {"peek", "get", "all"}
                          /\ loc[t].mine = 0
                          /\ pc[t] # "alUnlock"}

\* The handles that callers can still be handed.
Budget == MaxCountHandles - Len(hNode) - Cardinality(MayMint)

\* The handles that were returned to a caller.
Returned == {h \in 1..Len(hNode) : \A t \in Threads : loc[t].mine # h}

\* counting.Cache.Set(k, v) = SetS(k, v, 1): n := NewNode(v); h, _ :=
\* n.Handle().  The node is the goroutine's own until items.Add publishes it,
\* so the two are one step: handles = 1, one handle minted.
CSet(t, k) ==
    /\ At(t, "idle")
    /\ Len(handles) < MaxNodes
    /\ Budget >= 1
    /\ handles' = Append(handles, NewNode.handles + 1)
    /\ released' = Append(released, NewNode.released)
    /\ releases' = Append(releases, 0)
    /\ hNode' = Append(hNode, Len(handles) + 1)
    /\ hRel' = Append(hRel, FALSE)
    /\ Goto(t, "sAdd", [NoLoc EXCEPT !.op = "set", !.k = k, !.sz = 1,
                                     !.n = Len(handles) + 1,
                                     !.mine = Len(hNode) + 1])
    /\ UNCHANGED <<histVars, cacheVars, obsVars>>

\* Cache.SetS that adds a new key to the policy as it adds it to the map,
\* before the evictions.
SAddPolicyFirst(t) ==
    LET l == loc[t]
        av == [expire |-> Expire, size |-> Max(1, l.sz), v |-> l.n] IN
    /\ At(t, "sAdd")
    /\ items' = MapAdd(items, l.k, av)
    /\ IF MapHas(items, l.k)
         THEN /\ Goto(t, "sReplSize", [l EXCEPT !.n = items[l.k].v,
                                                !.es = items[l.k].size])
              /\ UNCHANGED policy
         ELSE /\ Goto(t, "evCAS", [l EXCEPT !.n = 0])
              /\ policy' = ARCAdd(policy, l.k).c
    /\ UNCHANGED <<nodeVars, histVars, policyMu, evictBool, cap, size,
                   length, expiration, now, evict, evictSkip, mapVars, panicked, obsVars>>

\* Cache.SetS: size = max(1, size); p, ok := a.items.Add(k, av).
SAdd(t) ==
    LET l == loc[t]
        av == [expire |-> Expire, size |-> Max(1, l.sz), v |-> l.n] IN
    /\ At(t, "sAdd")
    /\ items' = MapAdd(items, l.k, av)
    /\ IF MapHas(items, l.k)
         THEN Goto(t, "sReplSize", [l EXCEPT !.n = items[l.k].v,
                                             !.es = items[l.k].size])
         ELSE Goto(t, "evCAS", [l EXCEPT !.n = 0])
    /\ UNCHANGED <<nodeVars, histVars, policy, policyMu, evictBool, cap, size,
                   length, expiration, now, evict, evictSkip, mapVars, panicked, obsVars>>

\* Cache.SetS, a prior value, with the prior size not taken off Cache.size.
SReplSizeNoSub(t) ==
    LET l == loc[t] IN
    /\ At(t, "sReplSize")
    /\ size' = size + Max(1, l.sz)
    /\ EvictCall(t, l.k, [l EXCEPT !.es = 0], "sRet")
    /\ UNCHANGED <<nodeVars, histVars, items, policy, policyMu, evictBool, cap,
                   length, expiration, now, evict, evictSkip, mapVars, panicked, lastOp>>

\* Cache.SetS, a prior value: a.size.Add(size - p.size), then a.evict(k, p.v).
SReplSize(t) ==
    LET l == loc[t] IN
    /\ At(t, "sReplSize")
    /\ size' = size + Max(1, l.sz) - l.es
    /\ EvictCall(t, l.k, [l EXCEPT !.es = 0], "sRet")
    /\ UNCHANGED <<nodeVars, histVars, items, policy, policyMu, evictBool, cap,
                   length, expiration, now, evict, evictSkip, mapVars, panicked, lastOp>>

\* counting.Cache.SetS: return h.
SRet(t) ==
    /\ At(t, "sRet")
    /\ Done(t)
    /\ UNCHANGED <<nodeVars, histVars, cacheVars, obsVars>>

\* Cache.evicts that enters the loop whatever evictBool is.
EvCASAlways(t) ==
    /\ At(t, "evCAS")
    /\ evictBool' = TRUE
    /\ pc' = [pc EXCEPT ![t] = "evLoad"]
    /\ UNCHANGED <<nodeVars, loc, histVars, items, policy, policyMu, cap, size,
                   length, expiration, now, evict, evictSkip, mapVars, panicked, obsVars>>

\* Cache.evicts: a.evictBool.CompareAndSwap(false, true).
EvCAS(t) ==
    /\ At(t, "evCAS")
    /\ evictBool' = TRUE
    /\ pc' = [pc EXCEPT ![t] = IF evictBool THEN "insLen" ELSE "evLoad"]
    /\ UNCHANGED <<nodeVars, loc, histVars, items, policy, policyMu, cap, size,
                   length, expiration, now, evict, evictSkip, mapVars, panicked, obsVars>>

\* Cache.evicts: s := a.size.Load(); s >= a.cap.Load().
EvLoad(t) ==
    /\ At(t, "evLoad")
    /\ Goto(t, IF size >= cap THEN "evPolicy" ELSE "evStore",
            [loc[t] EXCEPT !.n = 0, !.ret = "idle"])
    /\ UNCHANGED <<nodeVars, histVars, cacheVars, obsVars>>

\* The keys the predicate of a.policy.EvictSkip holds of: with the option
\* EvictSkip those whose node has n.Handles() > 0, and none without it.
SkipKeys ==
    IF evictSkip
      THEN {k \in DOMAIN items : /\ items[k].v \in 1..Len(handles)
                                 /\ handles[items[k].v] > 0}
      ELSE {}

\* Cache.policyEvict that never skips a key.
EvPolicyNoSkip(t) ==
    LET e == ARCEvict(policy) IN
    /\ At(t, "evPolicy")
    /\ policyMu = 0
    /\ policyMu' = t
    /\ policy' = e.c
    /\ Goto(t, "evUnlock", [loc[t] EXCEPT !.ok = e.ok,
                                          !.ek = IF e.ok THEN e.key ELSE 0])
    /\ UNCHANGED <<nodeVars, histVars, items, evictBool, cap, size, length,
                   expiration, now, evict, evictSkip, mapVars, panicked, obsVars>>

\* Cache.policyEvict with a policy that keeps the key it evicts.
EvPolicyKeep(t) ==
    LET e == ARCEvict(policy) IN
    /\ At(t, "evPolicy")
    /\ policyMu = 0
    /\ policyMu' = t
    /\ policy' = policy
    /\ Goto(t, "evUnlock", [loc[t] EXCEPT !.ok = e.ok,
                                          !.ek = IF e.ok THEN e.key ELSE 0])
    /\ UNCHANGED <<nodeVars, histVars, items, evictBool, cap, size, length,
                   expiration, now, evict, evictSkip, mapVars, panicked, obsVars>>

\* Cache.policyEvict: a.policyMu.Lock(); a.policy.Evict(), or
\* a.policy.EvictSkip with the predicate of the option EvictSkip.
EvPolicy(t) ==
    LET e == ARCEvictSkip(policy, SkipKeys) IN
    /\ At(t, "evPolicy")
    /\ policyMu = 0
    /\ policyMu' = t
    /\ policy' = e.c
    /\ Goto(t, "evUnlock", [loc[t] EXCEPT !.ok = e.ok,
                                          !.ek = IF e.ok THEN e.key ELSE 0])
    /\ UNCHANGED <<nodeVars, histVars, items, evictBool, cap, size, length,
                   expiration, now, evict, evictSkip, mapVars, panicked, obsVars>>

\* Cache.policyEvict: the deferred a.policyMu.Unlock(); if !ok { break }.
EvUnlock(t) ==
    /\ At(t, "evUnlock")
    /\ policyMu' = 0
    /\ Goto(t, IF loc[t].ok THEN "evDelete" ELSE "evStore",
            [loc[t] EXCEPT !.ok = FALSE])
    /\ UNCHANGED <<nodeVars, histVars, items, policy, evictBool, cap, size,
                   length, expiration, now, evict, evictSkip, mapVars, panicked, obsVars>>

\* Cache.evicts with the victim left in the map: panicGet in place of
\* panicDelete.
EvDeleteKeeps(t) ==
    LET l == loc[t] IN
    /\ At(t, "evDelete")
    /\ IF MapHas(items, l.ek)
         THEN /\ Goto(t, "evLen", [l EXCEPT !.n = items[l.ek].v,
                                            !.es = items[l.ek].size])
              /\ UNCHANGED <<items, panicked>>
         ELSE /\ panicked' = "notInItems"
              /\ UNCHANGED <<items, thrVars>>
    /\ UNCHANGED <<nodeVars, histVars, policy, policyMu, evictBool, cap, size,
                   length, expiration, now, evict, evictSkip, mapVars, obsVars>>

\* Cache.panicDelete(k): a.items.Delete(k), a panic when k is not there.
EvDelete(t) ==
    LET l == loc[t] IN
    /\ At(t, "evDelete")
    /\ IF MapHas(items, l.ek)
         THEN /\ items' = MapDelete(items, l.ek)
              /\ Goto(t, "evLen", [l EXCEPT !.n = items[l.ek].v,
                                            !.es = items[l.ek].size])
              /\ UNCHANGED panicked
         ELSE /\ panicked' = "notInItems"
              /\ UNCHANGED <<items, thrVars>>
    /\ UNCHANGED <<nodeVars, histVars, policy, policyMu, evictBool, cap, size,
                   length, expiration, now, evict, evictSkip, mapVars, obsVars>>

\* Cache.evicts: a.length.Add(-1).
EvLen(t) ==
    /\ At(t, "evLen")
    /\ length' = length - 1
    /\ pc' = [pc EXCEPT ![t] = "evSize"]
    /\ UNCHANGED <<nodeVars, loc, histVars, items, policy, policyMu, evictBool,
                   cap, size, expiration, now, evict, evictSkip, mapVars, panicked, obsVars>>

\* Cache.evicts: a.size.Add(-v.size), then a.evict(k, v.v); the loop goes on
\* after it.
EvSize(t) ==
    /\ At(t, "evSize")
    /\ size' = size - loc[t].es
    /\ EvictCall(t, loc[t].ek, [loc[t] EXCEPT !.es = 0, !.ek = 0], "evLoad")
    /\ UNCHANGED <<nodeVars, histVars, items, policy, policyMu, evictBool, cap,
                   length, expiration, now, evict, evictSkip, mapVars, panicked, lastOp>>

\* Cache.evicts: the deferred a.evictBool.Store(false).
EvStore(t) ==
    /\ At(t, "evStore")
    /\ evictBool' = FALSE
    /\ pc' = [pc EXCEPT ![t] = "insLen"]
    /\ UNCHANGED <<nodeVars, loc, histVars, items, policy, policyMu, cap, size,
                   length, expiration, now, evict, evictSkip, mapVars, panicked, obsVars>>

\* Cache.SetS, no prior value: a.length.Add(1).
InsLen(t) ==
    /\ At(t, "insLen")
    /\ length' = length + 1
    /\ pc' = [pc EXCEPT ![t] = "insSize"]
    /\ UNCHANGED <<nodeVars, loc, histVars, items, policy, policyMu, evictBool,
                   cap, size, expiration, now, evict, evictSkip, mapVars, panicked, obsVars>>

\* Cache.SetS, no prior value: a.size.Add(size).
InsSize(t) ==
    /\ At(t, "insSize")
    /\ size' = size + Max(1, loc[t].sz)
    /\ pc' = [pc EXCEPT ![t] = "insPolicy"]
    /\ UNCHANGED <<nodeVars, loc, histVars, items, policy, policyMu, evictBool,
                   cap, length, expiration, now, evict, evictSkip, mapVars, panicked, obsVars>>

\* Cache.panicPolicyAdd(k): a.policyMu.Lock(); a.policy.Add(k), a panic when
\* it returns false.
InsPolicy(t) ==
    LET add == ARCAdd(policy, loc[t].k) IN
    /\ At(t, "insPolicy")
    /\ policyMu = 0
    /\ policyMu' = t
    /\ IF add.ok
         THEN /\ policy' = add.c
              /\ pc' = [pc EXCEPT ![t] = "insUnlock"]
              /\ UNCHANGED panicked
         ELSE /\ panicked' = "alreadyInPolicy"
              /\ UNCHANGED <<policy, pc>>
    /\ UNCHANGED <<nodeVars, loc, histVars, items, evictBool, cap, size, length,
                   expiration, now, evict, evictSkip, mapVars, obsVars>>

\* Cache.panicPolicyAdd: the deferred a.policyMu.Unlock().
InsUnlock(t) ==
    /\ At(t, "insUnlock")
    /\ policyMu' = 0
    /\ pc' = [pc EXCEPT ![t] = "sRet"]
    /\ UNCHANGED <<nodeVars, loc, histVars, items, policy, evictBool, cap, size,
                   length, expiration, now, evict, evictSkip, mapVars, panicked, obsVars>>

\* counting.Cache.Peek(k) (op = "peek") or counting.Cache.Get(k) (op = "get")
\* is called.
CPeek(t, k, op) ==
    /\ At(t, "idle")
    /\ Budget >= 1
    /\ Goto(t, "pkGet", [NoLoc EXCEPT !.op = op, !.k = k])
    /\ UNCHANGED <<nodeVars, histVars, cacheVars, obsVars>>

\* counting.Cache.Peek: v, ok := a.cache.Peek(k); a miss returns, a hit calls
\* v.Handle().
PkGet(t) ==
    /\ At(t, "pkGet")
    /\ IF CacheGetOk(loc[t].k)
         THEN Goto(t, "incLoad", [loc[t] EXCEPT !.n = items[loc[t].k].v,
                                                !.h = 0, !.ret = "pkRet"])
         ELSE Done(t)
    /\ UNCHANGED <<nodeVars, histVars, cacheVars, obsVars>>

\* counting.Cache.Peek that calls v.Handle() again on the node it has,
\* without reading the cache again.
PkRetSameNode(t) ==
    LET l == loc[t] IN
    /\ At(t, "pkRet")
    /\ IF l.ok
         THEN IF l.op = "get"
                THEN Goto(t, "gTryLock", [l EXCEPT !.mine = l.h, !.h = 0, !.n = 0,
                                                   !.ok = FALSE, !.ret = "idle"])
                ELSE Done(t)
         ELSE Goto(t, "incLoad", l)
    /\ UNCHANGED <<nodeVars, histVars, cacheVars, obsVars>>

\* counting.Cache.Peek: if h, ok := v.Handle(); ok { return h, true }, else
\* the loop starts over.  Get goes on to a.cache.Promote(k).
PkRet(t) ==
    LET l == loc[t] IN
    /\ At(t, "pkRet")
    /\ IF l.ok
         THEN IF l.op = "get"
                THEN Goto(t, "gTryLock", [l EXCEPT !.mine = l.h, !.h = 0, !.n = 0,
                                                   !.ok = FALSE, !.ret = "idle"])
                ELSE Done(t)
         ELSE Goto(t, "pkGet", [l EXCEPT !.n = 0, !.ret = "idle"])
    /\ UNCHANGED <<nodeVars, histVars, cacheVars, obsVars>>

\* Cache.Promote with a.policyMu.Lock() in place of TryLock.
GTryLockBlocks(t) ==
    /\ At(t, "gTryLock")
    /\ policyMu = 0
    /\ policyMu' = t
    /\ policy' = ARCPromote(policy, loc[t].k).c
    /\ pc' = [pc EXCEPT ![t] = "gUnlock"]
    /\ UNCHANGED loc
    /\ UNCHANGED <<nodeVars, histVars, items, evictBool, cap, size, length,
                   expiration, now, evict, evictSkip, mapVars, panicked, obsVars>>

\* Cache.Promote: a.policyMu.TryLock(), and a.policy.Promote(k) when it got
\* the lock; without the lock Get returns h.
GTryLock(t) ==
    /\ At(t, "gTryLock")
    /\ IF policyMu = 0
         THEN /\ policyMu' = t
              /\ policy' = ARCPromote(policy, loc[t].k).c
              /\ pc' = [pc EXCEPT ![t] = "gUnlock"]
              /\ UNCHANGED loc
         ELSE /\ Done(t)
              /\ UNCHANGED <<policy, policyMu>>
    /\ UNCHANGED <<nodeVars, histVars, items, evictBool, cap, size, length,
                   expiration, now, evict, evictSkip, mapVars, panicked, obsVars>>

\* Cache.Promote: the deferred a.policyMu.Unlock(); Get returns h.
GUnlock(t) ==
    /\ At(t, "gUnlock")
    /\ policyMu' = 0
    /\ Done(t)
    /\ UNCHANGED <<nodeVars, histVars, items, policy, evictBool, cap, size,
                   length, expiration, now, evict, evictSkip, mapVars, panicked, obsVars>>

\* counting.Cache.All() is ranged over.
CAll(t) ==
    /\ At(t, "idle")
    /\ Budget >= 1
    /\ Goto(t, "alLock", [NoLoc EXCEPT !.op = "all"])
    /\ UNCHANGED <<nodeVars, histVars, cacheVars, obsVars>>

\* Cache.All: a.policyMu.RLock(), a Lock of the mutex; the keys of
\* a.policy.Values() are the ones the loop will see, the lock being held
\* until the loop ends.
AlLock(t) ==
    /\ At(t, "alLock")
    /\ policyMu = 0
    /\ policyMu' = t
    /\ Goto(t, "alNext", [loc[t] EXCEPT !.ks = ARCValues(policy)])
    /\ UNCHANGED <<nodeVars, histVars, items, policy, evictBool, cap, size,
                   length, expiration, now, evict, evictSkip, mapVars, panicked, obsVars>>

\* Cache.All: the next key k; v := a.panicGet(k), a panic when k is not in
\* items; an expired value is skipped, another is yielded: to the loop of
\* counting.Cache.All, which calls v.Handle() on the node v (v # 0), or to the
\* body of the caller's loop.
AlNext(t) ==
    LET l == loc[t]
        k == Head(l.ks) IN
    /\ At(t, "alNext")
    /\ IF l.ks = <<>>
         THEN /\ Goto(t, "alUnlock", [l EXCEPT !.n = 0, !.ret = "idle"])
              /\ UNCHANGED panicked
         ELSE IF ~MapHas(items, k)
           THEN /\ panicked' = "missingValue"
                /\ UNCHANGED thrVars
           ELSE /\ IF Expired(items[k].expire)
                     THEN Goto(t, "alNext", [l EXCEPT !.ks = Tail(l.ks)])
                     ELSE IF items[k].v = 0
                       THEN Goto(t, "alBody", [l EXCEPT !.ks = Tail(l.ks)])
                       ELSE Goto(t, "incLoad", [l EXCEPT !.ks = Tail(l.ks),
                                                         !.k = k,
                                                         !.n = items[k].v,
                                                         !.h = 0,
                                                         !.ret = "alRet"])
                /\ UNCHANGED panicked
    /\ UNCHANGED <<nodeVars, histVars, items, policy, policyMu, evictBool, cap,
                   size, length, expiration, now, evict, evictSkip, mapVars, obsVars>>

\* counting.Cache.All: if !ok { continue }, else yield(k, h).
AlRet(t) ==
    LET l == loc[t] IN
    /\ At(t, "alRet")
    /\ IF l.ok
         THEN Goto(t, "alBody", [l EXCEPT !.mine = l.h, !.h = 0, !.n = 0, !.k = 0,
                                          !.ok = FALSE, !.ret = "idle"])
         ELSE Goto(t, "alNext", [l EXCEPT !.n = 0, !.k = 0, !.ret = "idle"])
    /\ UNCHANGED <<nodeVars, histVars, cacheVars, obsVars>>

\* The body of the caller's loop took (k, h): it goes on to the next pair
\* (more = TRUE) or leaves the loop, and yield returns false (more = FALSE).
AlBody(t, more) ==
    /\ At(t, "alBody")
    /\ more => (loc[t].ks = <<>> \/ Budget >= 1)
    /\ Goto(t, IF more THEN "alNext" ELSE "alUnlock", [loc[t] EXCEPT !.mine = 0])
    /\ UNCHANGED <<nodeVars, histVars, cacheVars, obsVars>>

\* Cache.All: the deferred a.policyMu.RUnlock().
AlUnlock(t) ==
    /\ At(t, "alUnlock")
    /\ policyMu' = 0
    /\ Done(t)
    /\ UNCHANGED <<nodeVars, histVars, items, policy, evictBool, cap, size,
                   length, expiration, now, evict, evictSkip, mapVars, panicked, obsVars>>

\* counting.Cache.Clear() is called.
CClear(t) ==
    /\ At(t, "idle")
    /\ Goto(t, "clLock", [NoLoc EXCEPT !.op = "clear"])
    /\ UNCHANGED <<nodeVars, histVars, cacheVars, obsVars>>

\* Cache.Clear: a.policyMu.Lock(); the keys of a.policy.Values() are the ones
\* the loop will see, the lock being held until Clear returns.
ClLock(t) ==
    /\ At(t, "clLock")
    /\ policyMu = 0
    /\ policyMu' = t
    /\ Goto(t, "clNext", [loc[t] EXCEPT !.ks = ARCValues(policy)])
    /\ UNCHANGED <<nodeVars, histVars, items, policy, evictBool, cap, size,
                   length, expiration, now, evict, evictSkip, mapVars, panicked, obsVars>>

\* Cache.Clear without a.policy.Clear().
ClNextNoPolicyClear(t) ==
    LET l == loc[t]
        k == Head(l.ks) IN
    /\ At(t, "clNext")
    /\ IF l.ks = <<>>
         THEN /\ policy' = policy
              /\ Goto(t, "clUnlock", [l EXCEPT !.n = 0, !.ret = "idle"])
              /\ UNCHANGED <<items, panicked>>
         ELSE IF ~MapHas(items, k)
           THEN /\ panicked' = "notInItems"
                /\ UNCHANGED <<items, policy, thrVars>>
           ELSE /\ items' = MapDelete(items, k)
                /\ Goto(t, "clSize", [l EXCEPT !.ks = Tail(l.ks),
                                               !.ek = k,
                                               !.n = items[k].v,
                                               !.es = items[k].size])
                /\ UNCHANGED <<policy, panicked>>
    /\ UNCHANGED <<nodeVars, histVars, policyMu, evictBool, cap, size, length,
                   expiration, now, evict, evictSkip, mapVars, obsVars>>

\* Cache.Clear: the next key k and v := a.panicDelete(k); after the last key,
\* a.policy.Clear().
ClNext(t) ==
    LET l == loc[t]
        k == Head(l.ks) IN
    /\ At(t, "clNext")
    /\ IF l.ks = <<>>
         THEN /\ policy' = ARCClear(policy)
              /\ Goto(t, "clUnlock", [l EXCEPT !.n = 0, !.ret = "idle"])
              /\ UNCHANGED <<items, panicked>>
         ELSE IF ~MapHas(items, k)
           THEN /\ panicked' = "notInItems"
                /\ UNCHANGED <<items, policy, thrVars>>
           ELSE /\ items' = MapDelete(items, k)
                /\ Goto(t, "clSize", [l EXCEPT !.ks = Tail(l.ks),
                                               !.ek = k,
                                               !.n = items[k].v,
                                               !.es = items[k].size])
                /\ UNCHANGED <<policy, panicked>>
    /\ UNCHANGED <<nodeVars, histVars, policyMu, evictBool, cap, size, length,
                   expiration, now, evict, evictSkip, mapVars, obsVars>>

\* Cache.Clear without a.size.Add(-v.size).
ClSizeNoSub(t) ==
    /\ At(t, "clSize")
    /\ size' = size
    /\ EvictCall(t, loc[t].ek, [loc[t] EXCEPT !.es = 0, !.ek = 0], "clNext")
    /\ UNCHANGED <<nodeVars, histVars, items, policy, policyMu, evictBool, cap,
                   length, expiration, now, evict, evictSkip, mapVars, panicked, lastOp>>

\* Cache.Clear: a.size.Add(-v.size), then a.evict(k, v.v); the loop goes on
\* after it.
ClSize(t) ==
    /\ At(t, "clSize")
    /\ size' = size - loc[t].es
    /\ EvictCall(t, loc[t].ek, [loc[t] EXCEPT !.es = 0, !.ek = 0], "clNext")
    /\ UNCHANGED <<nodeVars, histVars, items, policy, policyMu, evictBool, cap,
                   length, expiration, now, evict, evictSkip, mapVars, panicked, lastOp>>

\* Cache.Clear that returns with the policy lock held.
ClUnlockKeeps(t) ==
    /\ At(t, "clUnlock")
    /\ policyMu' = policyMu
    /\ Goto(t, IF loc[t].op = "lastClear" THEN "done" ELSE "idle", NoLoc)
    /\ UNCHANGED <<nodeVars, histVars, items, policy, evictBool, cap, size,
                   length, expiration, now, evict, evictSkip, mapVars, panicked, obsVars>>

\* Cache.Clear: the deferred a.policyMu.Unlock().  A goroutine whose last call
\* this was (op = "lastClear") is done.
ClUnlock(t) ==
    /\ At(t, "clUnlock")
    /\ policyMu' = 0
    /\ Goto(t, IF loc[t].op = "lastClear" THEN "done" ELSE "idle", NoLoc)
    /\ UNCHANGED <<nodeVars, histVars, items, policy, evictBool, cap, size,
                   length, expiration, now, evict, evictSkip, mapVars, panicked, obsVars>>

\* A caller calls Release on a handle it was handed, for the first time or
\* again.
CRelease(t, h) ==
    /\ At(t, "idle")
    /\ h \in Returned
    /\ Goto(t, "hSwap", [NoLoc EXCEPT !.n = hNode[h], !.h = h])
    /\ UNCHANGED <<nodeVars, histVars, cacheVars, obsVars>>

\* ------------ SpecCount: goroutines sharing a counting.Cache of capacity 1
InitCount ==
    /\ CountingNewCache(TestCapacity, FALSE, FALSE)
    /\ handles = <<>>
    /\ released = <<>>
    /\ releases = <<>>
    /\ hNode = <<>>
    /\ hRel = <<>>
    /\ pc = [t \in Threads |-> "idle"]
    /\ loc = [t \in Threads |-> NoLoc]
    /\ lastHandle = NoHandle

NextCount ==
    \E t \in CountThreads :
         \/ \E k \in CountKeys : CSet(t, k)
         \/ SAdd(t) \/ SReplSize(t) \/ SRet(t)
         \/ EvCAS(t) \/ EvLoad(t) \/ EvPolicy(t) \/ EvUnlock(t) \/ EvDelete(t)
         \/ EvLen(t) \/ EvSize(t) \/ EvStore(t)
         \/ InsLen(t) \/ InsSize(t) \/ InsPolicy(t) \/ InsUnlock(t)
         \/ \E k \in CountKeys : CPeek(t, k, "peek")
         \/ \E k \in CountKeys : CPeek(t, k, "get")
         \/ PkGet(t) \/ PkRet(t) \/ GTryLock(t) \/ GUnlock(t)
         \/ CAll(t) \/ AlLock(t) \/ AlNext(t) \/ AlRet(t)
         \/ \E more \in BOOLEAN : AlBody(t, more)
         \/ AlUnlock(t)
         \/ CClear(t) \/ ClLock(t) \/ ClNext(t) \/ ClSize(t) \/ ClUnlock(t)
         \/ \E h \in 1..Len(hNode) : CRelease(t, h)
         \/ IncLoad(t) \/ IncCAS(t)
         \/ HSwap(t) \/ NRelCAS(t) \/ DecAdd(t) \/ DecCAS(t) \/ ValRelease(t)

SpecCount == InitCount /\ [][NextCount]_vars

\* -- SpecEvict: goroutines sharing a counting.Cache with an Evict callback
\* The release function that the i-th call of the Evict callback was
\* handed is called, for the first time or again.
CallRelease(t, i) ==
    /\ At(t, "idle")
    /\ i \in 1..Len(evicted)
    /\ evicted' = [evicted EXCEPT ![i][3] = TRUE]
    /\ Goto(t, "nRelCAS", [NoLoc EXCEPT !.n = evicted[i][2]])
    /\ UNCHANGED <<nodeVars, histVars, cacheVars, lastOp>>

InitEvict ==
    /\ \E oEvictSkip \in BOOLEAN :
          CountingNewCache(TestCapacity, TRUE, oEvictSkip)
    /\ handles = <<>>
    /\ released = <<>>
    /\ releases = <<>>
    /\ hNode = <<>>
    /\ hRel = <<>>
    /\ pc = [t \in Threads |-> "idle"]
    /\ loc = [t \in Threads |-> NoLoc]
    /\ lastHandle = NoHandle

NextEvict ==
    \E t \in CountThreads :
         \/ \E k \in CountKeys : CSet(t, k)
         \/ SAdd(t) \/ SReplSize(t) \/ SRet(t)
         \/ EvCAS(t) \/ EvLoad(t) \/ EvPolicy(t) \/ EvUnlock(t) \/ EvDelete(t)
         \/ EvLen(t) \/ EvSize(t) \/ EvStore(t)
         \/ InsLen(t) \/ InsSize(t) \/ InsPolicy(t) \/ InsUnlock(t)
         \/ CClear(t) \/ ClLock(t) \/ ClNext(t) \/ ClSize(t) \/ ClUnlock(t)
         \/ \E h \in 1..Len(hNode) : CRelease(t, h)
         \/ \E i \in 1..MaxNodes : CallRelease(t, i)
         \/ HSwap(t) \/ NRelCAS(t) \/ DecAdd(t) \/ DecCAS(t) \/ ValRelease(t)

SpecEvict == InitEvict /\ [][NextEvict]_vars

\* The nodes that the Evict callback was called with, and those whose
\* release function was called.
Handed == {evicted[i][2] : i \in 1..Len(evicted)}

ReleaseCalled == {evicted[i][2] : i \in {j \in 1..Len(evicted) : evicted[j][3]}}

\* ---------------- SpecRace: goroutines sharing a cache.Cache, atomic steps
\* The SetS calls that may still raise Cache.length.
PendingInserts ==
    {t \in CountThreads :
        /\ loc[t].op = "cacheSet"
        /\ pc[t] \in {"sAdd", "evCAS", "evLoad", "evPolicy", "evUnlock",
                      "evDelete", "evLen", "evSize", "evStore", "insLen"}}

\* Cache.SetS(k, v, size) is called; v is not a node.
CacheSetS(t, k, sz) ==
    /\ At(t, "idle")
    /\ length + Cardinality(PendingInserts) < MaxRaceLength
    /\ Goto(t, "sAdd", [NoLoc EXCEPT !.op = "cacheSet", !.k = k, !.sz = sz])
    /\ UNCHANGED <<nodeVars, histVars, cacheVars, obsVars>>

\* Cache.Get(k): v, ok := a.get(k); a miss returns, a hit goes on to
\* a.Promote(k).
CacheGet(t, k) ==
    /\ At(t, "idle")
    /\ CacheGetOk(k)
    /\ Goto(t, "gTryLock", [NoLoc EXCEPT !.op = "cacheGet", !.k = k])
    /\ UNCHANGED <<nodeVars, histVars, cacheVars, obsVars>>

\* Cache.Promote(k) is called.
CachePromote(t, k) ==
    /\ At(t, "idle")
    /\ Goto(t, "gTryLock", [NoLoc EXCEPT !.op = "cachePromote", !.k = k])
    /\ UNCHANGED <<nodeVars, histVars, cacheVars, obsVars>>

\* Cache.All() is ranged over.
CacheAll(t) ==
    /\ At(t, "idle")
    /\ Goto(t, "alLock", [NoLoc EXCEPT !.op = "cacheAll"])
    /\ UNCHANGED <<nodeVars, histVars, cacheVars, obsVars>>

\* Cache.Clear() is called, as the last call of the goroutine or not.
CacheClear(t, last) ==
    /\ At(t, "idle")
    /\ Goto(t, "clLock",
            [NoLoc EXCEPT !.op = IF last THEN "lastClear" ELSE "clear"])
    /\ UNCHANGED <<nodeVars, histVars, cacheVars, obsVars>>

InitRace ==
    /\ InitCache
    /\ cap <= MaxCap

NextRace ==
    \E t \in CountThreads :
         \/ \E k \in CountKeys, sz \in {1, MaxSize} : CacheSetS(t, k, sz)
         \/ SAdd(t) \/ SReplSize(t) \/ SRet(t)
         \/ EvCAS(t) \/ EvLoad(t) \/ EvPolicy(t) \/ EvUnlock(t) \/ EvDelete(t)
         \/ EvLen(t) \/ EvSize(t) \/ EvStore(t)
         \/ InsLen(t) \/ InsSize(t) \/ InsPolicy(t) \/ InsUnlock(t)
         \/ \E k \in CountKeys : CacheGet(t, k)
         \/ \E k \in CountKeys : CachePromote(t, k)
         \/ GTryLock(t) \/ GUnlock(t)
         \/ CacheAll(t) \/ AlLock(t) \/ AlNext(t)
         \/ \E more \in BOOLEAN : AlBody(t, more)
         \/ AlUnlock(t)
         \/ \E last \in BOOLEAN : CacheClear(t, last)
         \/ ClLock(t) \/ ClNext(t) \/ ClSize(t) \/ ClUnlock(t)

SpecRace == InitRace /\ [][NextRace]_vars

\* --- FairRace: goroutines that keep running share a cache.Cache of
\* capacity 1 and call Set, Get, Promote, All and Clear.  The scheduler
\* lets every goroutine that can take a step take one (WF), and a goroutine
\* that waits in a.policyMu.Lock() gets the lock when it is free again and
\* again (SF): sync.Mutex hands the lock to a waiter that starves.
\* A step of goroutine t inside a call.
RaceStep(t) ==
    \/ SAdd(t) \/ SReplSize(t) \/ SRet(t)
    \/ EvCAS(t) \/ EvLoad(t) \/ EvPolicy(t) \/ EvUnlock(t) \/ EvDelete(t)
    \/ EvLen(t) \/ EvSize(t) \/ EvStore(t)
    \/ InsLen(t) \/ InsSize(t) \/ InsPolicy(t) \/ InsUnlock(t)
    \/ GTryLock(t) \/ GUnlock(t)
    \/ AlLock(t) \/ AlNext(t)
    \/ \E more \in BOOLEAN : AlBody(t, more)
    \/ AlUnlock(t)
    \/ ClLock(t) \/ ClNext(t) \/ ClSize(t) \/ ClUnlock(t)

\* The steps of goroutine t that are a.policyMu.Lock() or RLock().
RaceLock(t) == EvPolicy(t) \/ InsPolicy(t) \/ AlLock(t) \/ ClLock(t)

\* Goroutine t calls Set.
RaceSet(t) ==
    \E k \in CountKeys : CacheSetS(t, k, 1)

InitFair ==
    /\ InitCache
    /\ cap = TestCapacity

NextFair ==
    \E t \in CountThreads :
         \/ RaceSet(t)
         \/ \E k \in CountKeys : CacheGet(t, k)
         \/ \E k \in CountKeys : CachePromote(t, k)
         \/ CacheAll(t)
         \/ \E last \in BOOLEAN : CacheClear(t, last)
         \/ RaceStep(t)

FairRace ==
    /\ InitFair
    /\ [][NextFair]_vars
    /\ \A t \in CountThreads : WF_vars(RaceStep(t)) /\ SF_vars(RaceLock(t))

\* -- FairCount: goroutines calling Set, Peek and Get of a counting.Cache
\* and releasing the handles, under a fair scheduler
\* The steps of goroutine t inside a call of the counting.Cache, of a Node
\* or of a handle.
CountStep(t) ==
    \/ RaceStep(t)
    \/ PkGet(t) \/ PkRet(t)
    \/ IncLoad(t) \/ IncCAS(t)
    \/ HSwap(t) \/ NRelCAS(t) \/ DecAdd(t) \/ DecCAS(t) \/ ValRelease(t)

NextFairCount ==
    \E t \in CountThreads :
         \/ \E k \in CountKeys : CSet(t, k)
         \/ SAdd(t) \/ SReplSize(t) \/ SRet(t)
         \/ EvCAS(t) \/ EvLoad(t) \/ EvPolicy(t) \/ EvUnlock(t) \/ EvDelete(t)
         \/ EvLen(t) \/ EvSize(t) \/ EvStore(t)
         \/ InsLen(t) \/ InsSize(t) \/ InsPolicy(t) \/ InsUnlock(t)
         \/ \E k \in CountKeys : CPeek(t, k, "peek")
         \/ \E k \in CountKeys : CPeek(t, k, "get")
         \/ PkGet(t) \/ PkRet(t) \/ GTryLock(t) \/ GUnlock(t)
         \/ \E h \in 1..Len(hNode) : CRelease(t, h)
         \/ IncLoad(t) \/ IncCAS(t)
         \/ HSwap(t) \/ NRelCAS(t) \/ DecAdd(t) \/ DecCAS(t) \/ ValRelease(t)

\* Goroutines that are not blocked go on, and a goroutine waiting for
\* policyMu gets it when it is free again and again.
FairCount ==
    /\ InitCount
    /\ [][NextFairCount]_vars
    /\ \A t \in CountThreads : WF_vars(CountStep(t)) /\ SF_vars(RaceLock(t))

\* Goroutine t is inside a call.
Busy(t) == pc[t] \notin {"idle", "done"}

\* No call is in progress.
Quiescent == \A t \in Threads : pc[t] \in {"idle", "done"}

\* The sum of the stored sizes of the entries of the map m.
RECURSIVE SumSizes(_)
SumSizes(m) ==
    IF DOMAIN m = {} THEN 0
    ELSE LET k == CHOOSE x \in DOMAIN m : TRUE
         IN  m[k].size + SumSizes(MapDelete(m, k))

\* ------------------- SpecARC: one caller of an ARC, every call is a step
\* What a call on the policy leaves alone.
PolicyFrame ==
    UNCHANGED <<nodeVars, thrVars, histVars, items, policyMu, evictBool, cap,
                size, length, expiration, now, evict, evictSkip, mapVars, panicked, evicted>>

\* ARC.Add(k); lastOp.ok is its result.
PolicyAdd(k) ==
    LET r == ARCAdd(policy, k) IN
    /\ policy' = r.c
    /\ lastOp' = [op |-> "add", k |-> k, v |-> 0, ok |-> r.ok]
    /\ PolicyFrame

\* ARC.Promote(k); lastOp.ok is its result.
PolicyPromote(k) ==
    LET r == ARCPromote(policy, k) IN
    /\ policy' = r.c
    /\ lastOp' = [op |-> "promote", k |-> k, v |-> 0, ok |-> r.ok]
    /\ PolicyFrame

\* ARC.Evict(); lastOp.k is the evicted key, lastOp.ok the second result.
PolicyEvict ==
    LET r == ARCEvict(policy) IN
    /\ policy' = r.c
    /\ lastOp' = [op |-> "evict", k |-> r.key, v |-> 0, ok |-> r.ok]
    /\ PolicyFrame

\* The set of keys skip as a number: bit k - 1 is set when k is in skip.
RECURSIVE SkipMask(_)
SkipMask(skip) ==
    IF skip = {} THEN 0
    ELSE LET k == CHOOSE x \in skip : TRUE
         IN  2 ^ (k - 1) + SkipMask(skip \ {k})

\* The keys of the set that the number m stands for.
SkipSet(m) == {k \in Keys : (m \div 2 ^ (k - 1)) % 2 = 1}

\* ARC.EvictSkip(skip), skip holding of the keys of the set skip; lastOp.v
\* tells the set.
PolicyEvictSkip(skip) ==
    LET r == ARCEvictSkip(policy, skip) IN
    /\ policy' = r.c
    /\ lastOp' = [op |-> "evictSkip", k |-> r.key, v |-> SkipMask(skip),
                  ok |-> r.ok]
    /\ PolicyFrame

\* ARC.Clear().
PolicyClear ==
    /\ policy' = ARCClear(policy)
    /\ lastOp' = [op |-> "policyClear", k |-> 0, v |-> 0, ok |-> FALSE]
    /\ PolicyFrame

InitARC ==
    /\ NewCache(TestCapacity, 0)
    /\ handles = <<>>
    /\ released = <<>>
    /\ releases = <<>>
    /\ hNode = <<>>
    /\ hRel = <<>>
    /\ pc = [t \in Threads |-> "idle"]
    /\ loc = [t \in Threads |-> NoLoc]
    /\ lastHandle = NoHandle

NextARC ==
    \/ \E k \in Keys : PolicyAdd(k)
    \/ \E k \in Keys : PolicyPromote(k)
    \/ PolicyEvict
    \/ \E skip \in SUBSET Keys : PolicyEvictSkip(skip)
    \/ PolicyClear

SpecARC == InitARC /\ [][NextARC]_vars

\* -- SpecMap: goroutines sharing a maps.Map of one of the three kinds
\* Bucketed.bucket: the mutex, of those of mu, that guards key k.
Bucket(k) == (k % Len(mu)) + 1

\* What calls of the map leave alone.
MapFrame ==
    UNCHANGED <<nodeVars, histVars, policy, policyMu, evictBool, cap, size,
                length, expiration, now, evict, evictSkip, mapKind,
                panicked, evicted>>

\* A call that took effect, appended to mapLog with what it returns.
Logged(l) ==
    Append(mapLog, [op |-> l.op, k |-> l.k, v |-> l.v, ev |-> l.old,
                    ok |-> l.ok])

\* A goroutine calls Get(k), Add(k, v) or Delete(k) of the map.
MapCall(t, op, k, v) ==
    /\ At(t, "idle")
    /\ Len(mapLog) + Cardinality({u \in Threads : pc[u] # "idle"}) < MaxMapOps
    /\ Goto(t, IF mapKind = "sync" THEN "syncOp"
               ELSE IF op = "get" THEN "bRLock" ELSE "bLock",
            [NoLoc EXCEPT !.op = op, !.k = k, !.v = v])
    /\ UNCHANGED <<items, mu, mapLog, lastOp>>
    /\ MapFrame

\* m.mu.Lock() without the mutual exclusion.
BLockNoMutex(t) ==
    /\ At(t, "bLock")
    /\ mu' = [mu EXCEPT ![Bucket(loc[t].k)].w = t]
    /\ Goto(t, "bRead", loc[t])
    /\ UNCHANGED <<items, mapLog, lastOp>>
    /\ MapFrame

\* m.mu.Lock() of Builtin.Add and Builtin.Delete.
BLock(t) ==
    /\ At(t, "bLock")
    /\ mu[Bucket(loc[t].k)] = Unlocked
    /\ mu' = [mu EXCEPT ![Bucket(loc[t].k)].w = t]
    /\ Goto(t, "bRead", loc[t])
    /\ UNCHANGED <<items, mapLog, lastOp>>
    /\ MapFrame

\* m.mu.RLock() of Builtin.Get.
BRLock(t) ==
    /\ At(t, "bRLock")
    /\ mu[Bucket(loc[t].k)].w = 0
    /\ mu' = [mu EXCEPT ![Bucket(loc[t].k)].r = @ \cup {t}]
    /\ Goto(t, "bRead", loc[t])
    /\ UNCHANGED <<items, mapLog, lastOp>>
    /\ MapFrame

\* v, ok := m.m[k] of Builtin.Get, Add and Delete; this is all Get does.
BRead(t) ==
    /\ At(t, "bRead")
    /\ LET k == loc[t].k
           l == [loc[t] EXCEPT !.ok = MapHas(items, k),
                               !.old = IF MapHas(items, k) THEN items[k]
                                       ELSE 0]
       IN /\ Goto(t, CASE l.op = "get" -> "bRUnlock"
                       [] l.op = "add" -> "bWrite"
                       [] OTHER -> "bDelete", l)
          /\ mapLog' = IF l.op = "get" THEN Logged(l) ELSE mapLog
    /\ UNCHANGED <<items, mu, lastOp>>
    /\ MapFrame

\* m.m[k] = v of Builtin.Add.
BWrite(t) ==
    /\ At(t, "bWrite")
    /\ items' = MapAdd(items, loc[t].k, loc[t].v)
    /\ mapLog' = Logged(loc[t])
    /\ Goto(t, "bUnlock", loc[t])
    /\ UNCHANGED <<mu, lastOp>>
    /\ MapFrame

\* delete(m.m, k) of Builtin.Delete.
BDelete(t) ==
    /\ At(t, "bDelete")
    /\ items' = MapDelete(items, loc[t].k)
    /\ mapLog' = Logged(loc[t])
    /\ Goto(t, "bUnlock", loc[t])
    /\ UNCHANGED <<mu, lastOp>>
    /\ MapFrame

\* The deferred m.mu.Unlock() of Builtin.Add and Builtin.Delete.
BUnlock(t) ==
    /\ At(t, "bUnlock")
    /\ mu' = [mu EXCEPT ![Bucket(loc[t].k)].w = 0]
    /\ Goto(t, "mapRet", loc[t])
    /\ UNCHANGED <<items, mapLog, lastOp>>
    /\ MapFrame

\* The deferred m.mu.RUnlock() of Builtin.Get.
BRUnlock(t) ==
    /\ At(t, "bRUnlock")
    /\ mu' = [mu EXCEPT ![Bucket(loc[t].k)].r = @ \ {t}]
    /\ Goto(t, "mapRet", loc[t])
    /\ UNCHANGED <<items, mapLog, lastOp>>
    /\ MapFrame

\* m.m.Load(k), m.m.Swap(k, v) or m.m.LoadAndDelete(k) of maps.Sync: one
\* atomic operation of the syncmap.Map.
SyncOp(t) ==
    /\ At(t, "syncOp")
    /\ LET k == loc[t].k
           l == [loc[t] EXCEPT !.ok = MapHas(items, k),
                               !.old = IF MapHas(items, k) THEN items[k]
                                       ELSE 0]
       IN /\ items' = CASE l.op = "get" -> items
                        [] l.op = "add" -> MapAdd(items, k, l.v)
                        [] OTHER -> MapDelete(items, k)
          /\ mapLog' = Logged(l)
          /\ Goto(t, "mapRet", l)
    /\ UNCHANGED <<mu, lastOp>>
    /\ MapFrame

\* The call returns the value read and whether there was one.
MapRet(t) ==
    /\ At(t, "mapRet")
    /\ lastOp' = [op |-> loc[t].op, k |-> loc[t].k, v |-> loc[t].old,
                  ok |-> loc[t].ok]
    /\ Done(t)
    /\ UNCHANGED <<items, mu, mapLog>>
    /\ MapFrame

\* A map of any of the three kinds, empty, and nothing else in use.
InitMap ==
    /\ items = <<>>
    /\ policy = NewARC
    /\ policyMu = 0
    /\ evictBool = FALSE
    /\ cap = TestCapacity
    /\ size = 0
    /\ length = 0
    /\ expiration = 0
    /\ now = 0
    /\ evict = "user"
    /\ evictSkip = FALSE
    /\ panicked = ""
    /\ evicted = <<>>
    /\ lastOp = [op |-> "new", k |-> 0, v |-> 0, ok |-> FALSE]
    /\ handles = <<>>
    /\ released = <<>>
    /\ releases = <<>>
    /\ hNode = <<>>
    /\ hRel = <<>>
    /\ pc = [t \in Threads |-> "idle"]
    /\ loc = [t \in Threads |-> NoLoc]
    /\ lastHandle = NoHandle
    /\ \/ NewSync
       \/ NewBuiltin
       \/ NewBucketed(NBuckets)

NextMap ==
    \E t \in Threads :
        \/ \E k \in CountKeys : MapCall(t, "get", k, 0)
        \/ \E k \in CountKeys, v \in Vals : MapCall(t, "add", k, v)
        \/ \E k \in CountKeys : MapCall(t, "delete", k, 0)
        \/ BLock(t)
        \/ BRLock(t)
        \/ BRead(t)
        \/ BWrite(t)
        \/ BDelete(t)
        \/ BUnlock(t)
        \/ BRUnlock(t)
        \/ SyncOp(t)
        \/ MapRet(t)

SpecMap == InitMap /\ [][NextMap]_vars

\* The keys of a KeyList.
KeySet(list) == {list[i] : i \in 1..Len(list)}

\* The keys of T1 and T2.
Live(c) == KeySet(c.t1) \cup KeySet(c.t2)

\* ------------------------------------------------------- claims, SpecNode

\* C1: under any interleaving of Node.Handle, repeated handle.Release and
\* repeated Node.Release, the wrapped value's Release runs at most once.
C1_ReleasedAtMostOnce == \A n \in Nodes : releases[n] <= 1

C1_Witness ==
    /\ releases[1] = 1
    /\ Len(hNode) >= 1
    /\ \E t \in Threads : pc[t] \in {"hSwap", "nRelCAS"}

\* C2: the wrapped value's Release has run only if Node.Release was called
\* and no handle minted from the node is still outstanding.
C2_ReleasedOnlyAfterAll ==
    \A n \in Nodes :
        releases[n] > 0 =>
            /\ released[n] >= 1
            /\ Outstanding(n) = {}
            /\ handles[n] < 0

C2_Witness ==
    /\ releases[1] > 0
    /\ Len(hNode) >= 2
    /\ released[1] = 2

\* C3: once Node.Release and the Release of every minted handle have
\* returned, in whichever order, the wrapped value's Release has run.
C3_NoLeak ==
    \A n \in Nodes :
        (NodeReleased(n) /\ AllHandlesReleased(n)) => releases[n] >= 1

C3_Witness ==
    /\ AllIdle
    /\ NodeReleased(1)
    /\ AllHandlesReleased(1)
    /\ Len(hNode) >= 1
    /\ releases[1] = 1

\* C5: a Release call on a handle, or on a node, that is not the first one
\* (or that lost the race with the first one) returns at once and leaves the
\* handles counter, the released state and the value untouched.
C5_Idempotent ==
    [][\A t \in Threads :
          (\/ pc[t] = "hSwap" /\ hRel[loc[t].h] /\ pc'[t] # "hSwap"
           \/ pc[t] = "nRelCAS" /\ released[loc[t].n] # 0 /\ pc'[t] # "nRelCAS")
          => /\ pc'[t] = loc[t].ret
             /\ handles' = handles
             /\ released' = released
             /\ releases' = releases]_vars

C5_Witness ==
    /\ \E t \in Threads : pc[t] = "hSwap" /\ hRel[loc[t].h]
    /\ \E t \in Threads : pc[t] = "nRelCAS" /\ released[loc[t].n] # 0

\* C6: Node.Handle succeeds only by a CompareAndSwap that finds the counter
\* >= 0 and fails only on a counter < 0; the counter is never raised from a
\* negative value, so no handle is minted once it is negative.
C6_NoIncFromNegative ==
    [][/\ \A t \in Threads :
            /\ (pc[t] = "incCAS" /\ pc'[t] = loc[t].ret)
                  => /\ handles[loc[t].n] >= 0
                     /\ handles'[loc[t].n] = handles[loc[t].n] + 1
            /\ (pc[t] = "incLoad" /\ pc'[t] = loc[t].ret)
                  => handles[loc[t].n] < 0
       /\ \A n \in Nodes :
            handles[n] < 0 => (handles'[n] <= handles[n] /\ hNode' = hNode)]_vars

C6_Witness ==
    /\ handles[1] < 0
    /\ Len(hNode) >= 1
    /\ lastHandle.ok = "false"

\* C7 as stated: every Node.Handle call made after Node.Release returned
\* fails.
C7_Original == lastHandle.ok # "true"

\* C7 amended: every Node.Handle call made after Node.Release and the Release
\* of every minted handle returned fails.
C7_FailsAfterAllReleased == lastHandle.afterAll => lastHandle.ok = "false"

C7_Witness == lastHandle.afterAll /\ lastHandle.ok = "false" /\ Len(hNode) >= 1

\* ------------------------------------------------------ claims, SpecCache

\* C8: with no expiration and one goroutine, right after SetS(k, v, size)
\* returned, Peek(k) (and Get(k), which reads the map the same way) returns
\* (v, true), whatever the cache held before and whatever the capacity is.
C8_SetThenPeek ==
    lastOp.op = "set" =>
        /\ panicked = ""
        /\ Peek(lastOp.k) = [v |-> lastOp.v, ok |-> TRUE]

C8_Witness ==
    /\ lastOp.op = "set"
    /\ ~lastOp.ok
    /\ evicted # <<>>
    /\ size > cap
    /\ Peek(lastOp.k).ok

\* C9: a SetS(k, w, size) that replaces a value of k calls the eviction
\* callback once, with k and the prior value, leaves Len() alone, moves
\* Size() by the new size less the prior size, and Peek(k) then returns
\* (w, true).
C9_Replace ==
    [][\A k \in Keys :
          (lastOp'.op = "set" /\ lastOp'.ok /\ lastOp'.k = k) =>
              /\ evicted' = <<<<k, items[k].v>>>>
              /\ CacheLen' = CacheLen
              /\ CacheSize' = CacheSize + items'[k].size - items[k].size
              /\ Peek(k)' = [v |-> lastOp'.v, ok |-> TRUE]]_vars

C9_Witness ==
    /\ lastOp.op = "set"
    /\ lastOp.ok
    /\ Len(evicted) = 1
    /\ evicted[1][2] # lastOp.v
    /\ CacheLen >= 2

\* C10: right after Clear() returned, Len() = 0 and Size() = 0.
C10_ClearResets == lastOp.op = "clear" => (CacheLen = 0 /\ CacheSize = 0)


\* ------------------------------------------------------ claims, SpecCount

\* C4: a handle handed out by Set, Get, Peek or All of the counting cache
\* wraps a value whose Release has not run, and the value's Release does not
\* run for as long as Release was not called on that handle, whatever
\* evictions, replacements and Clears of its key go on at the same time.
C4_HandleKeepsValue ==
    \A h \in 1..Len(hNode) : ~hRel[h] => releases[hNode[h]] = 0

\* A handle minted by Peek, Get or All is in a caller's hands and unreleased,
\* while its node was evicted from the cache (Node.Release returned) and the
\* handle that Set returned for the node was released.
C4_Witness ==
    \E h \in Returned :
        /\ ~hRel[h]
        /\ NodeReleased(hNode[h])
        /\ \A k \in DOMAIN items : items[k].v # hNode[h]
        /\ \E g \in 1..(h - 1) : hNode[g] = hNode[h] /\ HandleReleased(g)
        /\ releases[hNode[h]] = 0


\* C11: the values that a call takes out of the cache, by a capacity
\* eviction, by a replacement or by Clear, are the ones the call passes to
\* the eviction callback, each once and with its key; a value that stays in
\* the cache is not passed.
C11_EvictedOnce ==
    [][LET left == {k \in DOMAIN items :
                       \/ k \notin DOMAIN items'
                       \/ lastOp'.op = "set" /\ lastOp'.ok /\ lastOp'.k = k}
       IN  /\ Len(evicted') = Cardinality(left)
           /\ \A k \in left :
                 Cardinality({i \in 1..Len(evicted') :
                                 evicted'[i] = <<k, items[k].v>>}) = 1
           /\ \A i \in 1..Len(evicted') : evicted'[i][1] \in left]_vars

\* Clear took two values out of the cache.
C11_Witness ==
    /\ lastOp.op = "clear"
    /\ Len(evicted) = 2
    /\ evicted[1][1] # evicted[2][1]
    /\ items = <<>>

\* C12: with no call in progress, Len() is the number of keys of the map and
\* is |T1| + |T2|.
C12_LenIsMapSize ==
    /\ CacheLen = Cardinality(DOMAIN items)
    /\ CacheLen = tLen(policy)

\* C14 as stated: after every SetS, Size() <= Capacity().
C14_Original == lastOp.op = "set" => CacheSize <= cap

\* C14 amended: after a SetS that added a key, Size() less the size of the
\* new value is below Capacity(), or the new value is alone in the cache.
C14_RoomBeforeInsert ==
    (lastOp.op = "set" /\ ~lastOp.ok) =>
        \/ CacheSize - items[lastOp.k].size < cap
        \/ DOMAIN items = {lastOp.k}

\* A SetS added a key next to another one and left Size() above Capacity().
C14_Witness ==
    /\ lastOp.op = "set"
    /\ ~lastOp.ok
    /\ Cardinality(DOMAIN items) >= 2
    /\ CacheSize > cap
    /\ CacheSize - items[lastOp.k].size < cap

\* ------------------------------------------------------- claims, SpecRace

\* C13: with no call in progress, Size() is the sum of the stored sizes of
\* the entries of the map, after any interleaving of SetS calls (on the same
\* key with different sizes as well), evictions and Clear.
C13_SizeIsSum == Quiescent => CacheSize = SumSizes(items)

\* No call is in progress, the map holds two entries of different sizes and
\* Size() is above Capacity().
C13_Witness ==
    /\ Quiescent
    /\ \E j, k \in DOMAIN items : items[j].size # items[k].size
    /\ CacheSize > cap
    /\ CacheSize = SumSizes(items)

\* C15: while the policy lock is free, every key of T1 and T2 is in the map;
\* the deletes of the evictor and of Clear and the lookup of All find their
\* key (no notInItems, no missingValue panic).
C15_PolicyInMap ==
    /\ policyMu = 0 => Live(policy) \subseteq DOMAIN items
    /\ panicked \notin {"notInItems", "missingValue"}

\* An evictor took a key off the policy and is about to delete it from the
\* map, while another goroutine is about to take the lock for Clear or All.
C15_Witness ==
    \E t, u \in CountThreads :
        /\ pc[t] = "evDelete"
        /\ MapHas(items, loc[t].ek)
        /\ pc[u] \in {"clLock", "alLock"}
        /\ policyMu = 0

\* C16: a SetS whose items.Add found no prior value goes on, after the
\* eviction pass and the counters, to policy.Add(k) with the policy lock
\* held, and policy.Add returns true (no alreadyInPolicy panic).
C16_PolicyAdd ==
    [][\A t \in CountThreads :
          /\ (pc[t] = "insSize" /\ pc'[t] # "insSize") => pc'[t] = "insPolicy"
          /\ (pc[t] = "insPolicy" /\ (pc'[t] # "insPolicy" \/ panicked' # ""))
               => /\ policyMu = 0
                  /\ policyMu' = t
                  /\ ARCAdd(policy, loc[t].k).ok
                  /\ policy' = ARCAdd(policy, loc[t].k).c
                  /\ pc'[t] = "insUnlock"
                  /\ panicked' = ""]_vars

\* policy.Add just brought back a key from a ghost list, while another
\* goroutine waits for the policy lock to evict or to clear.
C16_Witness ==
    \E t, u \in CountThreads :
        /\ pc[t] = "insUnlock"
        /\ policy.t2 # <<>>
        /\ Head(policy.t2) = loc[t].k
        /\ pc[u] \in {"evPolicy", "clLock"}

\* C17: once every goroutine has returned from its last call, a Clear,
\* Size() is 0, All() yields nothing and Get misses for every key.
C17_ClearedAtEnd ==
    (\A t \in CountThreads : pc[t] = "done") =>
        /\ CacheSize = 0
        /\ ARCValues(policy) = <<>>
        /\ \A k \in CountKeys : ~CacheGetOk(k)

\* Every goroutine has returned from its last Clear, and the Clears removed
\* at least two entries that SetS had added.
C17_Witness ==
    /\ \A t \in CountThreads : pc[t] = "done"
    /\ CacheLen >= 2

\* -------------------------------------------------------- claims, SpecARC

\* C18: T1, T2, B1 and B2 are pairwise disjoint after any sequence of Add,
\* Promote, Evict, EvictSkip and Clear.
C18_Disjoint ==
    /\ KeySet(policy.t1) \cap KeySet(policy.t2) = {}
    /\ KeySet(policy.t1) \cap KeySet(policy.b1) = {}
    /\ KeySet(policy.t1) \cap KeySet(policy.b2) = {}
    /\ KeySet(policy.t2) \cap KeySet(policy.b1) = {}
    /\ KeySet(policy.t2) \cap KeySet(policy.b2) = {}
    /\ KeySet(policy.b1) \cap KeySet(policy.b2) = {}

\* T2 and both ghost lists hold keys at once.
C18_Witness ==
    /\ policy.t2 # <<>>
    /\ policy.b1 # <<>>
    /\ policy.b2 # <<>>

\* C19: Add(k) returns false exactly when k is in T1 or T2, and then the
\* four lists and the target fraction are what they were.
C19_AddLive ==
    [][lastOp'.op = "add" =>
          /\ lastOp'.ok = (lastOp'.k \notin Live(policy))
          /\ ~lastOp'.ok => policy' = policy]_vars

\* An Add of a live key returned false, with ghosts around.
C19_Witness ==
    /\ lastOp.op = "add"
    /\ ~lastOp.ok
    /\ lastOp.k \in Live(policy)
    /\ policy.b1 # <<>>
    /\ policy.t2 # <<>>

\* C20: Add(k) of a key that is not live returns true; a key of B1 or B2
\* leaves that list and becomes the head of T2, any other key becomes the
\* head of T1; the other live keys keep their list and their order.
C20_AddPlaces ==
    [][\A k \in Keys :
          (lastOp'.op = "add" /\ lastOp'.k = k /\ k \notin Live(policy)) =>
              /\ lastOp'.ok
              /\ IF Has(policy.b1, k) \/ Has(policy.b2, k)
                   THEN /\ policy'.t2 = <<k>> \o policy.t2
                        /\ policy'.t1 = policy.t1
                        /\ ~Has(policy'.b1, k)
                        /\ ~Has(policy'.b2, k)
                   ELSE /\ policy'.t1 = <<k>> \o policy.t1
                        /\ policy'.t2 = policy.t2]_vars

\* Add moved a ghost key to the head of a T2 that held another key.
C20_Witness ==
    /\ lastOp.op = "add"
    /\ lastOp.ok
    /\ Len(policy.t2) >= 2
    /\ Head(policy.t2) = lastOp.k
    /\ policy.t1 # <<>>

\* C21: Promote(k) of a key of T2 makes it the head of T2 and returns true;
\* of a key of T1 takes it out of T1, makes it the head of T2 and returns
\* true; of any other key returns false and leaves the policy as it was.
C21_Promote ==
    [][\A k \in Keys :
          (lastOp'.op = "promote" /\ lastOp'.k = k) =>
              IF Has(policy.t2, k)
                THEN /\ lastOp'.ok
                     /\ policy'.t2 = <<k>> \o Remove(policy.t2, k)
                     /\ policy'.t1 = policy.t1
              ELSE IF Has(policy.t1, k)
                THEN /\ lastOp'.ok
                     /\ policy'.t1 = Remove(policy.t1, k)
                     /\ ~Has(policy'.t1, k)
                     /\ policy'.t2 = <<k>> \o policy.t2
              ELSE /\ ~lastOp'.ok
                   /\ policy' = policy]_vars

\* Promote moved a key of T1 to the head of a T2 that held another key,
\* T1 keeping a key.
C21_Witness ==
    /\ lastOp.op = "promote"
    /\ lastOp.ok
    /\ Len(policy.t2) >= 2
    /\ Head(policy.t2) = lastOp.k
    /\ policy.t1 # <<>>
    /\ policy.b1 = <<>>
    /\ policy.b2 = <<>>

\* The integer nearest to a/b, the even one of the two when a/b is half way.
HalfToEven(a, b) ==
    CHOOSE r \in 0..(a + 1) :
        LET d == IF a >= r * b THEN a - r * b ELSE r * b - a
        IN  \/ 2 * d < b
            \/ 2 * d = b /\ r % 2 = 0

\* list without its last key.
Front(list) == SubSeq(list, 1, Len(list) - 1)

\* C22: Evict() takes the tail of T1 to the head of B1 when T1 is not empty
\* and is longer than round_half_to_even(p * (|T1| + |T2|)) or T2 is empty;
\* otherwise it takes the tail of T2 to the head of B2 when T2 is not empty;
\* it returns ok = false only when T1 and T2 are both empty.
C22_EvictVictim ==
    [][lastOp'.op = "evict" =>
          LET c == policy
              target == HalfToEven(c.p[1] * tLen(c), c.p[2])
          IN  IF Len(c.t1) > 0 /\ (Len(c.t1) > target \/ Len(c.t2) = 0)
                THEN /\ lastOp'.ok
                     /\ lastOp'.k = c.t1[Len(c.t1)]
                     /\ policy'.t1 = Front(c.t1)
                     /\ policy'.b1 = <<lastOp'.k>> \o c.b1
                     /\ policy'.t2 = c.t2
                     /\ policy'.b2 = c.b2
              ELSE IF Len(c.t2) > 0
                THEN /\ lastOp'.ok
                     /\ lastOp'.k = c.t2[Len(c.t2)]
                     /\ policy'.t2 = Front(c.t2)
                     /\ policy'.b2 = <<lastOp'.k>> \o c.b2
                     /\ policy'.t1 = c.t1
                     /\ policy'.b1 = c.b1
              ELSE /\ ~lastOp'.ok
                   /\ Len(c.t1) = 0
                   /\ Len(c.t2) = 0]_vars

\* Evict took the tail of T2 while T1 held a key.
C22_Witness ==
    /\ lastOp.op = "evict"
    /\ lastOp.ok
    /\ policy.b2 # <<>>
    /\ Head(policy.b2) = lastOp.k
    /\ policy.t1 # <<>>

\* The keys of list behind position i, towards the tail.
Behind(list, k) ==
    {list[j] : j \in {i \in 1..Len(list) : \E h \in 1..(i - 1) : list[h] = k}}

\* C23: EvictSkip(pred) never returns a key pred holds of; the key it
\* returns is the one nearest the tail of its list that pred does not hold
\* of; when pred holds of every key of T1 and T2 it returns (zero, false)
\* and leaves T1, T2, B1, B2 and p as they were.
C23_EvictSkip ==
    [][lastOp'.op = "evictSkip" =>
          LET skip == SkipSet(lastOp'.v)
              k == lastOp'.k
          IN  /\ lastOp'.ok =>
                    /\ k \notin skip
                    /\ k \in Live(policy)
                    /\ k \notin Live(policy')
                    /\ Has(policy.t1, k) => /\ Behind(policy.t1, k) \subseteq skip
                                            /\ Head(policy'.b1) = k
                    /\ Has(policy.t2, k) => /\ Behind(policy.t2, k) \subseteq skip
                                            /\ Head(policy'.b2) = k
              /\ ~lastOp'.ok => /\ k = 0
                                /\ policy' = policy
              /\ Live(policy) \subseteq skip => ~lastOp'.ok]_vars

\* EvictSkip passed over the tail of T2, which pred held of, and returned
\* the key in front of it.
C23_Witness ==
    /\ lastOp.op = "evictSkip"
    /\ lastOp.ok
    /\ policy.t2 # <<>>
    /\ policy.t2[Len(policy.t2)] \in SkipSet(lastOp.v)
    /\ policy.b2 # <<>>
    /\ Head(policy.b2) = lastOp.k

\* EvictSkip returned (zero, false) with keys in T1 and T2, pred holding
\* of all of them.
C23_WitnessAllSkipped ==
    /\ lastOp.op = "evictSkip"
    /\ ~lastOp.ok
    /\ policy.t1 # <<>>
    /\ policy.t2 # <<>>

PFinite(c) == c.p[2] > 0 /\ 0 <= c.p[1] /\ c.p[1] <= c.p[2]

\* C25: the target fraction p is a finite number of 0..1 in every state; a
\* hit on B1 while T1 and T2 are empty sets p to 1 and a hit on B2 then
\* sets it to 0.
C25_TargetFraction ==
    [][/\ PFinite(policy)
       /\ PFinite(policy')
       /\ \A k \in Keys :
             (lastOp'.op = "add" /\ lastOp'.k = k /\ tLen(policy) = 0) =>
                 /\ Has(policy.b2, k) => policy'.p = <<0, 1>>
                 /\ (~Has(policy.b2, k) /\ Has(policy.b1, k)) =>
                        policy'.p = <<1, 1>>]_vars

\* Add hit B1 while T1 and T2 were empty: p is 1.
C25_Witness ==
    /\ lastOp.op = "add"
    /\ lastOp.ok
    /\ policy.t1 = <<>>
    /\ policy.t2 = <<lastOp.k>>
    /\ policy.p = <<1, 1>>
    /\ policy.b2 # <<>>

\* C28: Capacity() is at least 1 after NewCache with any Capacity option
\* and after SetCapacity with any argument.
C28_CapacityAtLeastOne == Capacity >= 1

\* C29: SetLargerCapacity(available, max) stores
\* min(max, min(size, cap) + available) as the capacity when that is above
\* the capacity and leaves the capacity alone otherwise: it never lowers
\* the capacity, and with available <= 0 it never changes it, whatever the
\* size.
C29_SetLargerCapacity ==
    [][lastOp'.op = "setLargerCapacity" =>
          LET available == lastOp'.k
              max == lastOp'.v
              least == IF size <= cap THEN size ELSE cap
              sum == least + available
              new == IF max <= sum THEN max ELSE sum
          IN  /\ new > cap => cap' = new /\ lastOp'.ok
              /\ new <= cap => cap' = cap /\ ~lastOp'.ok
              /\ cap' >= cap
              /\ available <= 0 => cap' = cap
              /\ size' = size]_vars

\* SetLargerCapacity with available = 0 has run with the size above the
\* capacity and below max.
C29_Witness ==
    /\ lastOp.op = "setLargerCapacity"
    /\ lastOp.k = 0
    /\ size > cap
    /\ lastOp.v > cap
    /\ cap >= 1

\* SetLargerCapacity has raised the capacity.
C29_WitnessRaised ==
    /\ lastOp.op = "setLargerCapacity"
    /\ lastOp.ok
    /\ cap = MaxCap
    /\ size > 0

\* k is in the cache and the seconds since the epoch are below the second
\* of its Set plus the expiration, or there is no expiration.
Fresh(k) ==
    /\ MapHas(items, k)
    /\ expiration = 0 \/ now < items[k].v + expiration

\* C30: with an expiration of e >= 1 seconds a value that Set stored at
\* second t, and that is still in the cache, is returned by Get and Peek
\* and yielded by All at every second below t + e, and is a miss for Get
\* and Peek and skipped by All from second t + e on; with no expiration it
\* never expires; a Set of the same key makes it visible again.
C30_Expiration ==
    [][/\ \A k \in Keys :
             /\ Peek(k).ok = Fresh(k)
             /\ Peek(k)'.ok = Fresh(k)'
             /\ Has(All, k) = Fresh(k)
             /\ Has(All, k)' = Fresh(k)'
             /\ (lastOp'.op \in {"get", "peek"} /\ lastOp'.k = k
                   /\ now' = now) =>
                    /\ lastOp'.ok = Fresh(k)
                    /\ lastOp'.ok => lastOp'.v = items[k].v
             /\ (lastOp'.op = "set" /\ lastOp'.k = k /\ now' = now) =>
                    /\ items'[k].v = now
                    /\ Peek(k)'.ok
                    /\ Has(All, k)'
       /\ expiration' = expiration]_vars

\* Get missed a value that is in the cache, two seconds after its Set.
C30_Witness ==
    /\ lastOp.op = "get"
    /\ ~lastOp.ok
    /\ MapHas(items, lastOp.k)
    /\ expiration = 2
    /\ now = items[lastOp.k].v + 2

\* Set made an expired value visible again.
C30_WitnessAgain ==
    /\ lastOp.op = "set"
    /\ lastOp.ok
    /\ expiration >= 1
    /\ evicted # <<>>
    /\ evicted[1][2] + expiration <= now
    /\ Peek(lastOp.k).ok

\* C26: in a counting cache with a custom Evict callback the value's
\* Release does not run before the release function that the callback was
\* handed for its node has been called, so never on account of the
\* eviction or the replacement alone; once that function has returned and
\* all handles of the node are released, Release has run exactly once.
C26_DeferredRelease ==
    \A n \in 1..Len(handles) :
        /\ releases[n] <= 1
        /\ releases[n] >= 1 => n \in ReleaseCalled
        /\ (n \in ReleaseCalled /\ NodeReleased(n) /\ AllHandlesReleased(n)) =>
               releases[n] = 1

\* A node was replaced or evicted while the caller of Set held its handle,
\* its release function was called, the handle was released, and the
\* value's Release has run.
C26_Witness ==
    \E n \in 1..Len(handles) :
        /\ n \in ReleaseCalled
        /\ NodeReleased(n)
        /\ AllHandlesReleased(n)
        /\ releases[n] = 1

\* A node was handed to the callback, all its handles are released, and
\* the value's Release has not run: nobody called the release function.
C26_WitnessPending ==
    \E n \in Handed :
        /\ n \notin ReleaseCalled
        /\ AllHandlesReleased(n)
        /\ released[n] = 0
        /\ releases[n] = 0
        /\ \A t \in CountThreads : pc[t] = "idle"

C27_WitnessSkipped ==
    /\ evictSkip
    /\ \E t \in CountThreads :
          /\ pc[t] = "evUnlock"
          /\ ~loc[t].ok
          /\ Live(policy) # {}

\* C38: EvictSkip(pred) returns ok = false only if T1 and T2 are empty or
\* pred holds of every key of T1 and T2.
C38_Original ==
    [][lastOp'.op = "evictSkip" =>
          (~lastOp'.ok => Live(policy) \subseteq SkipSet(lastOp'.v))]_vars

\* The keys EvictSkip looks at: those of T2, and those of T1 when T1 is not
\* empty and is longer than its target or T2 is empty.
Tried(c) ==
    (IF Len(c.t1) > 0 /\ (Len(c.t1) > HalfToEven(c.p[1] * tLen(c), c.p[2])
                          \/ Len(c.t2) = 0)
       THEN KeySet(c.t1) ELSE {})
    \cup KeySet(c.t2)

\* C38 as the code has it: EvictSkip(pred) returns ok = false exactly when
\* pred holds of every key of the lists it looks at, and those are T2 and,
\* only when T1 is not empty and is longer than its target or T2 is empty,
\* T1; a key of T1 that pred does not hold of is no victim otherwise.
C38_EvictSkipTried ==
    [][lastOp'.op = "evictSkip" =>
          /\ ~lastOp'.ok <=> Tried(policy) \subseteq SkipSet(lastOp'.v)
          /\ lastOp'.ok => lastOp'.k \in Tried(policy)]_vars

\* EvictSkip returned ok = false although pred does not hold of a key of
\* T1: T1 is within its target and pred holds of every key of T2.
C38_Witness ==
    /\ lastOp.op = "evictSkip"
    /\ ~lastOp.ok
    /\ policy.t2 # <<>>
    /\ \E k \in KeySet(policy.t1) : k \notin SkipSet(lastOp.v)

\* C31: Peek(k) leaves the policy (its lists, their order and p), the map
\* and the counters as they were, so whatever is evicted later is the same
\* with the Peek and without it; Get(k) of a key that is there, and
\* Promote(k) of a key of T1 or T2, make it the head of T2.
C31_PeekNoPromote ==
    [][\A k \in Keys :
          /\ (lastOp'.op = "peek" /\ lastOp'.k = k) =>
                 /\ policy' = policy
                 /\ items' = items
                 /\ <<size, length, cap>>' = <<size, length, cap>>
                 /\ lastOp'.ok = CacheGetOk(k)
          /\ (/\ lastOp'.k = k
              /\ \/ lastOp'.op = "get" /\ lastOp'.ok
                 \/ lastOp'.op = "promote"
              /\ k \in Live(policy)) =>
                 /\ Head(policy'.t2) = k
                 /\ ~Has(policy'.t1, k)]_vars

\* Peek returned the value of the key at the tail of T1, and the key is
\* still there, behind another one.
C31_Witness ==
    /\ lastOp.op = "peek"
    /\ lastOp.ok
    /\ Len(policy.t1) >= 2
    /\ policy.t1[Len(policy.t1)] = lastOp.k

\* The step is a SetS(k, ...) that found no prior value, with a capacity of
\* at least 1.
InsertingSet(k) ==
    /\ lastOp'.op = "set"
    /\ lastOp'.k = k
    /\ ~lastOp'.ok
    /\ ~MapHas(items, k)
    /\ MapHas(items', k)
    /\ cap >= 1
    /\ panicked' = ""

\* C40: with one goroutine and a capacity C >= 1, after an inserting
\* SetS(k, v, s) Size() <= C - 1 + max(1, s); when every entry has size 1,
\* Size() <= C and Len() <= C.
C40_Original ==
    [][\A k \in Keys :
          InsertingSet(k) =>
              /\ CacheSize' <= cap - 1 + items'[k].size
              /\ (\A x \in DOMAIN items' : items'[x].size = 1) =>
                     /\ CacheSize' <= cap
                     /\ CacheLen' <= cap]_vars

\* The bound of C40 on Size() alone.
C40_SizeBound ==
    [][\A k \in Keys :
          InsertingSet(k) =>
              /\ CacheSize' <= cap - 1 + items'[k].size
              /\ (\A x \in DOMAIN items' : items'[x].size = 1) =>
                     CacheSize' <= cap]_vars

\* An inserting SetS of size 2 has evicted an entry and left Size() at
\* C - 1 + 2.
C40_Witness ==
    /\ lastOp.op = "set"
    /\ ~lastOp.ok
    /\ evicted # <<>>
    /\ cap >= 1
    /\ size = cap + 1

\* C32: Get(k) does not wait for the policy lock: the goroutine at
\* TryLock can always take its step; with the lock held by another one it
\* returns the value it read and leaves the policy and the lock alone, and
\* with the lock free it takes it to promote.
C32_GetNeverWaits ==
    [][\A t \in CountThreads :
          /\ (pc[t] = "gTryLock" /\ panicked = "") => ENABLED GTryLock(t)
          /\ (pc[t] = "gTryLock" /\ pc'[t] # "gTryLock") =>
                 IF policyMu # 0
                   THEN /\ pc'[t] = "idle"
                        /\ policy' = policy
                        /\ policyMu' = policyMu
                   ELSE /\ pc'[t] = "gUnlock"
                        /\ policyMu' = t]_vars

\* A Get has read its value and is at TryLock while another goroutine
\* holds the policy lock inside Clear.
C32_Witness ==
    \E t \in CountThreads :
        /\ pc[t] = "gTryLock"
        /\ loc[t].op = "cacheGet"
        /\ policyMu \notin {0, t}
        /\ pc[policyMu] \in {"clNext", "clSize"}

\* The goroutines inside the loop of Cache.evicts, the owners of evictBool.
Evictors ==
    {t \in CountThreads :
        pc[t] \in {"evLoad", "evPolicy", "evUnlock", "evDelete", "evLen",
                   "evSize", "evStore"}}

\* C33: at most one goroutine is inside the eviction loop, and evictBool
\* is set while it is; a Set that finds evictBool set can take its step at
\* once, evicts nothing and goes on to insert its key.
C33_OneEvictor ==
    [][/\ Cardinality(Evictors) <= 1
       /\ Cardinality(Evictors') <= 1
       /\ Evictors # {} => evictBool
       /\ \A t \in CountThreads :
             /\ (pc[t] = "evCAS" /\ panicked = "") => ENABLED EvCAS(t)
             /\ (pc[t] = "evCAS" /\ pc'[t] # "evCAS" /\ evictBool) =>
                    /\ pc'[t] = "insLen"
                    /\ items' = items
                    /\ policy' = policy
                    /\ evictBool']_vars

\* A Set went past the eviction loop to its insertion while another
\* goroutine is inside the loop.
C33_Witness ==
    \E t, u \in CountThreads :
        /\ t # u
        /\ pc[t] \in {"evPolicy", "evDelete", "evSize"}
        /\ pc[u] \in {"insLen", "insSize", "insPolicy"}

\* The goroutines inside a SetS that added a new key to the map and has
\* not added it to the policy yet.
Inserting ==
    {t \in CountThreads :
        /\ loc[t].op = "cacheSet"
        /\ pc[t] \in {"evCAS", "evLoad", "evPolicy", "evUnlock", "evDelete",
                      "evLen", "evSize", "evStore", "insLen", "insSize",
                      "insPolicy"}}

\* C35: the key of a Set that added it to the map and has not added it to
\* the policy yet stays in the map, whatever evictions and Clears run; a
\* Set goes from its map.Add through the eviction pass to its policy.Add;
\* and a key leaves the map only as the key the policy gave to the eviction
\* loop or as a key of policy.Values() inside Clear.
C35_PendingKeyStays ==
    [][/\ \A t \in Inserting : MapHas(items, loc[t].k)
       /\ \A t \in Inserting' : MapHas(items', loc'[t].k)
       /\ \A t \in CountThreads :
             /\ (pc[t] = "sAdd" /\ pc'[t] # "sAdd" /\ ~MapHas(items, loc[t].k)) =>
                    pc'[t] = "evCAS"
             /\ (pc'[t] \in {"insLen", "insSize", "insPolicy"}
                 /\ pc'[t] # pc[t]) =>
                    pc[t] \in {"evCAS", "evStore", "insLen", "insSize"}
       /\ \A k \in DOMAIN items \ DOMAIN items' :
             \E t \in CountThreads :
                 \/ pc[t] = "evDelete" /\ loc[t].ek = k
                 \/ /\ pc[t] = "clNext"
                    /\ policyMu = t
                    /\ k \in Live(policy)]_vars

\* A Set has a new key in the map and not in the policy while another
\* goroutine is about to delete a key inside the eviction loop or Clear.
C35_Witness ==
    \E t \in Inserting, u \in CountThreads :
        /\ t # u
        /\ loc[t].k \notin Live(policy)
        /\ \/ pc[u] = "evDelete"
           \/ pc[u] = "clNext" /\ loc[u].ks # <<>>
        /\ Cardinality(DOMAIN items) >= 2

\* The positions at which a goroutine holds the policy lock.
LockHeld ==
    {"evUnlock", "insUnlock", "gUnlock", "alNext", "alBody", "alUnlock",
     "clNext", "clSize", "clUnlock"}

\* evictBool is set exactly while a goroutine is inside the eviction loop,
\* the policy lock is held exactly by a goroutine between its Lock and its
\* Unlock, and no goroutine that holds it is about to lock it.
C39_LocksReleased ==
    panicked = "" =>
        /\ evictBool <=> Evictors # {}
        /\ \A t \in CountThreads : (policyMu = t) <=> (pc[t] \in LockHeld)
        /\ policyMu \in CountThreads \cup {0}
        /\ Quiescent => policyMu = 0 /\ ~evictBool

\* C39: evictBool is cleared when an eviction pass ends, the policy lock
\* is released on every path and never locked by its holder, and with fair
\* scheduling every call returns.
C39_Original ==
    /\ []C39_LocksReleased
    /\ \A t \in CountThreads : Busy(t) ~> ~Busy(t)

\* C39 as the code has it: evictBool is cleared when an eviction pass
\* ends, the policy lock is released on every path and never locked by its
\* holder; with fair scheduling every call returns or is the Set that owns
\* the eviction loop, and that one returns too unless the goroutines go on
\* calling SetS for ever.
C39_Terminates ==
    /\ []C39_LocksReleased
    /\ \A t \in CountThreads : Busy(t) ~> (~Busy(t) \/ t \in Evictors)
    /\ \/ []<><<\E u \in CountThreads : RaceSet(u)>>_vars
       \/ \A t \in CountThreads : Busy(t) ~> ~Busy(t)

\* The owner of the eviction loop must go round: the size is at the
\* capacity by the Set of another goroutine, which has put a key that had
\* been evicted back into the policy and is about to return.
C39_Witness ==
    \E t, u \in CountThreads :
        /\ pc[t] = "evLoad"
        /\ size >= cap
        /\ pc[u] = "insUnlock"
        /\ policy.t2 # <<>>
        /\ Head(policy.t2) = loc[u].k


\* -------------------------------------------------------- claims, SpecMap
\* The last call before the i-th of mapLog that changed the same key, 0
\* when there is none.
PrevWrite(i) ==
    LET js == {j \in 1..(i - 1) : /\ mapLog[j].k = mapLog[i].k
                                  /\ mapLog[j].op # "get"}
    IN IF js = {} THEN 0 ELSE CHOOSE j \in js : \A x \in js : x <= j

\* C34: Map.Add is an atomic insert-or-replace. Taking the calls in the
\* order they took effect, an Add of a key observes existed = false exactly
\* when the key is absent (no call changed it before, or the last that did
\* was a Delete), so of the Adds that follow one another on an absent key
\* with no Delete in between only the first observes it; every other Add
\* observes existed = true and the value stored by the Add just before it.
C34_AddAtomic ==
    \A i \in 1..Len(mapLog) :
        mapLog[i].op = "add" =>
            LET j == PrevWrite(i)
            IN IF j = 0 \/ mapLog[j].op = "delete"
               THEN ~mapLog[i].ok
               ELSE mapLog[i].ok /\ mapLog[i].ev = mapLog[j].v

\* Three Adds of one key were in progress at once on a Builtin map: the
\* first found the key absent, the second found the value of the first, and
\* the third is still waiting for the mutex.
C34_Witness ==
    /\ mapKind = "builtin"
    /\ Len(mapLog) = 2
    /\ mapLog[1].op = "add" /\ mapLog[2].op = "add"
    /\ mapLog[1].k = mapLog[2].k
    /\ mapLog[1].v # mapLog[2].v
    /\ ~mapLog[1].ok
    /\ mapLog[2].ok /\ mapLog[2].ev = mapLog[1].v
    /\ \E t, u \in Threads :
           /\ pc[t] = "bUnlock"
           /\ pc[u] = "bLock" /\ loc[u].op = "add" /\ loc[u].k = mapLog[1].k


\* ------------------------------------------------ claims, SpecCount (C36)
\* The nodes stored in the map.
InMap == {items[k].v : k \in DOMAIN items}

\* The nodes on which a call of Node.Release is in progress or has been made.
NodeReleaseCalled ==
    {n \in Nodes : released[n] # 0}
        \cup {loc[t].n : t \in {u \in CountThreads : pc[u] = "nRelCAS"}}

\* C36: in the counting cache with the default callback, Node.Release is
\* called on a node only after the node was taken out of the map, by an
\* eviction, a replacement or Clear: every node stored in the map is open
\* with a count of handles that is not negative, and its value has not been
\* released, whether or not all its handles have been.
C36_ReleaseAfterRemoval ==
    \A n \in InMap :
        /\ n \notin NodeReleaseCalled
        /\ released[n] = 0
        /\ handles[n] >= 0
        /\ releases[n] = 0

\* A node is stored in the map with all its handles released, the one
\* that Set returned among them, and its value not released, after
\* Node.Release was called on a node that was taken out of the map.
C36_Witness ==
    \E n \in InMap :
        /\ handles[n] = 0
        /\ \E h \in 1..Len(hNode) : hNode[h] = n
        /\ \A h \in 1..Len(hNode) : hNode[h] = n => HandleReleased(h)
        /\ releases[n] = 0
        /\ \E m \in Nodes \ InMap : released[m] # 0

\* A Set that replaced a value is about to call Node.Release on the node it
\* took out of the map, while the node it stored is open.
C36_WitnessReplacing ==
    \E t \in CountThreads :
        /\ pc[t] = "nRelCAS"
        /\ loc[t].op = "set"
        /\ loc[t].n \notin InMap
        /\ MapHas(items, loc[t].k)
        /\ released[items[loc[t].k].v] = 0


\* ------------------------------------------------ claims, FairCount (C37)
\* Goroutine t is inside counting.Cache.Peek, or inside the Peek that Get
\* starts with.
InPeek(t) == loc[t].op \in {"peek", "get"} /\ pc[t] # "idle"

\* C37: the retry loop of Peek and Get of the counting cache terminates.
\* When Node.Handle fails on the node read from the map, the node is no
\* longer in the map, and a node taken out of the map never comes back, so
\* the next iteration reads another node or misses; with the Sets coming to
\* an end (the model makes MaxNodes of them at most), every Peek and Get
\* returns.
C37_PeekTerminates ==
    /\ [](\A t \in CountThreads :
              pc[t] = "pkRet" /\ ~loc[t].ok => loc[t].n \notin InMap)
    /\ [][\A n \in Nodes : released[n] # 0 => n \notin InMap']_vars
    /\ \A t \in CountThreads : InPeek(t) ~> ~InPeek(t)

\* Node.Handle failed on the node that Peek read from the map, and the map
\* holds another node for the key by now.
C37_Witness ==
    \E t \in CountThreads :
        /\ pc[t] = "pkRet"
        /\ ~loc[t].ok
        /\ loc[t].n \in Nodes \ InMap
        /\ MapHas(items, loc[t].k)
        /\ items[loc[t].k].v # loc[t].n

====
